---- MODULE Spec2Model ----
(***************************************************************************)
(* Identity resolution over a contact store: IdentityService.identifyContact*)
(* with ContactService / ContactRepository underneath, and the integrity    *)
(* repair routines of EdgeCaseHandler and DatabaseUtils.                    *)
(*                                                                         *)
(* The store is the sequence of rows of the Contact table; a row's id is    *)
(* its position (autoincrement from 1, rows are never physically removed). *)
(* SQL NULL is NULL for the string columns and 0 for linkedId / deletedAt   *)
(* (ids and timestamps start at 1).                                         *)
(***************************************************************************)
EXTENDS Integers, Sequences, FiniteSets, TLC

VARIABLES contacts, now, op, req, fail, resp, branch, pre, prevCall, fixes,
          arg, returned, fetched, outcome, body, status, requests, calls

vars == <<contacts, now, op, req, fail, resp, branch, pre, prevCall, fixes,
          arg, returned, fetched, outcome, body, status, requests, calls>>

----------------------------------------------------------------------------
(* Bounds *)

MaxContacts == 4

MaxCorrupt == 2

MaxRacing == 2

MaxPosted == 2

(* Contacts in a list handed to a ContactMatcher method *)
MaxListed == 3

(* Rate-limit windows that the clock runs through *)
MaxWindows == 2

Emails == {"a", "b"}

Phones == {"1", "2"}

StoreErrors == {"connection refused", "query timeout"}

----------------------------------------------------------------------------
(* Values *)

NULL == "NULL"

NoId == 0

NoTime == 0

PRIMARY == "primary"

SECONDARY == "secondary"

NoContact ==
    [id |-> NoId, email |-> NULL, phoneNumber |-> NULL, linkedId |-> NoId,
     linkPrecedence |-> "none", createdAt |-> NoTime, deletedAt |-> NoTime]

Range(s) == {s[i] : i \in DOMAIN s}

(* Array.prototype.find: first element at one of the matching positions,  *)
(* else undefined                                                          *)
FindFirst(s, matching) ==
    IF matching = {} THEN NoContact
    ELSE s[CHOOSE i \in matching : \A j \in matching : i <= j]

(* find(c => c.linkPrecedence === LinkPrecedence.PRIMARY) *)
FindPrimary(s) ==
    FindFirst(s, {i \in DOMAIN s : s[i].linkPrecedence = PRIMARY})

(* find(c => c.id === id) *)
FindById(s, id) == FindFirst(s, {i \in DOMAIN s : s[i].id = id})

(* Set.add followed by Array.from: insertion order, no repeated value *)
AddToSet(s, v) == IF v \in Range(s) THEN s ELSE Append(s, v)

----------------------------------------------------------------------------
(* The requests that reach identifyContact: the controller passes          *)
(* `email || null` and `phoneNumber || null` after the schema has refused   *)
(* a body with neither field.                                               *)

Requests ==
    {r \in [email : Emails \cup {NULL}, phoneNumber : Phones \cup {NULL}] :
        r.email # NULL \/ r.phoneNumber # NULL}

(* Outcome of the store calls of one identify: the message of the error    *)
(* thrown by the candidate query (NULL = it succeeds), whether the insert   *)
(* throws, the ids whose update throws, and the ids of the younger          *)
(* Primaries whose chain mergeContactChains fails to read.                  *)
NoFailure == [find |-> NULL, create |-> FALSE, update |-> {}, merge |-> {}]

Failures ==
    {[NoFailure EXCEPT !.find = e] : e \in StoreErrors}
        \cup {[NoFailure EXCEPT !.create = TRUE]}
        \cup {[NoFailure EXCEPT !.update = {i}] : i \in 2..MaxContacts}
        \cup {[NoFailure EXCEPT !.merge = {i}] : i \in 2..MaxContacts}

----------------------------------------------------------------------------
(* ContactRepository *)

IsActive(c) == c.deletedAt = NoTime

(* ORDER BY createdAt ASC (position breaks a tie) *)
RECURSIVE OrderByCreatedAt(_, _)
OrderByCreatedAt(cs, S) ==
    IF S = {} THEN <<>>
    ELSE LET m == CHOOSE i \in S : \A j \in S :
                      \/ cs[i].createdAt < cs[j].createdAt
                      \/ cs[i].createdAt = cs[j].createdAt /\ i <= j
         IN <<cs[m]>> \o OrderByCreatedAt(cs, S \ {m})

(* ORDER BY linkPrecedence ASC, createdAt ASC: primary rows first *)
OrderByPrecedenceCreatedAt(cs, S) ==
    OrderByCreatedAt(cs, {i \in S : cs[i].linkPrecedence = PRIMARY})
        \o OrderByCreatedAt(cs, {i \in S : cs[i].linkPrecedence # PRIMARY})

(* Faulty variant: the row is inserted a second time *)
createContactTwice(cs, t, data) ==
    LET row == [id |-> Len(cs) + 1, email |-> data.email,
                phoneNumber |-> data.phoneNumber, linkedId |-> data.linkedId,
                linkPrecedence |-> data.linkPrecedence,
                createdAt |-> t, deletedAt |-> NoTime]
    IN Append(Append(cs, row), [row EXCEPT !.id = Len(cs) + 2])

(* Faulty variant: an insert of a pair that an active row holds is dropped *)
createContactUnlessHeld(cs, t, data) ==
    IF \E i \in DOMAIN cs : /\ IsActive(cs[i])
                             /\ cs[i].email = data.email
                             /\ cs[i].phoneNumber = data.phoneNumber
    THEN cs
    ELSE Append(cs, [id |-> Len(cs) + 1, email |-> data.email,
                     phoneNumber |-> data.phoneNumber, linkedId |-> data.linkedId,
                     linkPrecedence |-> data.linkPrecedence,
                     createdAt |-> t, deletedAt |-> NoTime])

createContact(cs, t, data) ==
    Append(cs, [id |-> Len(cs) + 1, email |-> data.email,
                phoneNumber |-> data.phoneNumber, linkedId |-> data.linkedId,
                linkPrecedence |-> data.linkPrecedence,
                createdAt |-> t, deletedAt |-> NoTime])

findContactsByEmailOrPhone(cs, email, phoneNumber) ==
    IF email = NULL /\ phoneNumber = NULL THEN <<>>
    ELSE OrderByCreatedAt(cs,
            {i \in DOMAIN cs :
                /\ IsActive(cs[i])
                /\ \/ email # NULL /\ cs[i].email = email
                   \/ phoneNumber # NULL /\ cs[i].phoneNumber = phoneNumber})

(* Faulty variant: findUnique without the deletedAt filter *)
getAllLinkedContactsOfDeleted(cs, contactId) ==
    IF contactId \notin DOMAIN cs THEN <<>>
    ELSE LET contact == cs[contactId]
             primaryContactId == IF contact.linkPrecedence = PRIMARY
                                 THEN contact.id ELSE contact.linkedId
         IN IF primaryContactId = NoId THEN <<contact>>
            ELSE OrderByPrecedenceCreatedAt(cs,
                    {i \in DOMAIN cs :
                        /\ IsActive(cs[i]) \/ i = contactId
                        /\ cs[i].id = primaryContactId
                           \/ cs[i].linkedId = primaryContactId})

(* Faulty variant: findMany without the deletedAt filter *)
getAllLinkedContactsWithDeleted(cs, contactId) ==
    IF ~(contactId \in DOMAIN cs /\ IsActive(cs[contactId])) THEN <<>>
    ELSE LET contact == cs[contactId]
             primaryContactId == IF contact.linkPrecedence = PRIMARY
                                 THEN contact.id ELSE contact.linkedId
         IN IF primaryContactId = NoId THEN <<contact>>
            ELSE OrderByPrecedenceCreatedAt(cs,
                    {i \in DOMAIN cs :
                        \/ cs[i].id = primaryContactId
                        \/ cs[i].linkedId = primaryContactId})

getAllLinkedContacts(cs, contactId) ==
    IF ~(contactId \in DOMAIN cs /\ IsActive(cs[contactId])) THEN <<>>
    ELSE LET contact == cs[contactId]
             primaryContactId == IF contact.linkPrecedence = PRIMARY
                                 THEN contact.id ELSE contact.linkedId
         IN IF primaryContactId = NoId THEN <<contact>>
            ELSE OrderByPrecedenceCreatedAt(cs,
                    {i \in DOMAIN cs :
                        /\ IsActive(cs[i])
                        /\ cs[i].id = primaryContactId
                           \/ cs[i].linkedId = primaryContactId})

(* Faulty variant: the email and phoneNumber that the caller leaves out are *)
(* written as null                                                          *)
updateContactLinkageClearing(cs, contactId, linkPrecedence, linkedId) ==
    [cs EXCEPT ![contactId].linkPrecedence = linkPrecedence,
               ![contactId].linkedId = linkedId,
               ![contactId].email = NULL,
               ![contactId].phoneNumber = NULL]

(* prisma.contact.update with linkedId and linkPrecedence given, email and *)
(* phoneNumber undefined (left as they are); there is no deletedAt filter.  *)
updateContactLinkage(cs, contactId, linkPrecedence, linkedId) ==
    [cs EXCEPT ![contactId].linkPrecedence = linkPrecedence,
               ![contactId].linkedId = linkedId]

----------------------------------------------------------------------------
(* ContactService *)

Ok(cs, data) == [success |-> TRUE, error |-> NULL, cs |-> cs, data |-> data]

Err(cs, message) == [success |-> FALSE, error |-> message, cs |-> cs, data |-> NoContact]

(* Faulty variant: the new identity is inserted as a Secondary *)
createPrimaryContactAsSecondary(cs, t, email, phoneNumber, f) ==
    IF f.create THEN Err(cs, "insert failed")
    ELSE LET cs2 == createContact(cs, t,
                        [email |-> email, phoneNumber |-> phoneNumber,
                         linkPrecedence |-> SECONDARY, linkedId |-> NoId])
         IN Ok(cs2, cs2[Len(cs2)])

createPrimaryContact(cs, t, email, phoneNumber, f) ==
    IF f.create THEN Err(cs, "insert failed")
    ELSE LET cs2 == createContact(cs, t,
                        [email |-> email, phoneNumber |-> phoneNumber,
                         linkPrecedence |-> PRIMARY, linkedId |-> NoId])
         IN Ok(cs2, cs2[Len(cs2)])

(* Faulty variant: the Secondary is inserted without its link *)
createSecondaryContactUnlinked(cs, t, primaryContactId, email, phoneNumber, f) ==
    IF f.create THEN Err(cs, "insert failed")
    ELSE LET cs2 == createContact(cs, t,
                        [email |-> email, phoneNumber |-> phoneNumber,
                         linkPrecedence |-> SECONDARY, linkedId |-> NoId])
         IN Ok(cs2, cs2[Len(cs2)])

createSecondaryContact(cs, t, primaryContactId, email, phoneNumber, f) ==
    IF f.create THEN Err(cs, "insert failed")
    ELSE LET cs2 == createContact(cs, t,
                        [email |-> email, phoneNumber |-> phoneNumber,
                         linkPrecedence |-> SECONDARY, linkedId |-> primaryContactId])
         IN Ok(cs2, cs2[Len(cs2)])

(* reduce((oldest, current) => oldest.createdAt < current.createdAt ? oldest : current) *)
RECURSIVE ReduceOldest(_, _)
ReduceOldest(oldest, s) ==
    IF s = <<>> THEN oldest
    ELSE ReduceOldest(IF oldest.createdAt < Head(s).createdAt THEN oldest ELSE Head(s),
                      Tail(s))

IsPrimary(c) == c.linkPrecedence = PRIMARY

IsSecondary(c) == c.linkPrecedence = SECONDARY

(* Faulty variant: a failed query is taken for an empty result *)
findExistingContactsSwallowing(cs, email, phoneNumber, f) ==
    IF f.find # NULL
    THEN [success |-> TRUE, error |-> NULL, contacts |-> <<>>,
          primaryContact |-> NoContact, secondaryContacts |-> <<>>]
    ELSE LET found == findContactsByEmailOrPhone(cs, email, phoneNumber)
             primaryContacts == SelectSeq(found, IsPrimary)
         IN [success |-> TRUE, error |-> NULL, contacts |-> found,
             primaryContact |-> IF Len(primaryContacts) > 0
                                THEN ReduceOldest(Head(primaryContacts), Tail(primaryContacts))
                                ELSE NoContact,
             secondaryContacts |-> SelectSeq(found, IsSecondary)]

findExistingContacts(cs, email, phoneNumber, f) ==
    IF f.find # NULL
    THEN [success |-> FALSE, error |-> f.find, contacts |-> <<>>,
          primaryContact |-> NoContact, secondaryContacts |-> <<>>]
    ELSE LET found == findContactsByEmailOrPhone(cs, email, phoneNumber)
             primaryContacts == SelectSeq(found, IsPrimary)
         IN [success |-> TRUE, error |-> NULL, contacts |-> found,
             primaryContact |-> IF Len(primaryContacts) > 0
                                THEN ReduceOldest(Head(primaryContacts), Tail(primaryContacts))
                                ELSE NoContact,
             secondaryContacts |-> SelectSeq(found, IsSecondary)]

getLinkedContactChain(cs, contactId) == getAllLinkedContacts(cs, contactId)

(* One update of the store; an id in f.update makes the update throw, the  *)
(* repository turns that into a failure result and the row is unchanged.    *)
TryUpdate(cs, contactId, linkPrecedence, linkedId, f) ==
    IF contactId \in f.update \/ contactId \notin DOMAIN cs THEN cs
    ELSE updateContactLinkage(cs, contactId, linkPrecedence, linkedId)

(* Faulty variant: the two ids are taken the other way round *)
convertPrimaryToSecondarySwapped(cs, contactId, newPrimaryId, f) ==
    TryUpdate(cs, newPrimaryId, SECONDARY, contactId, f)

convertPrimaryToSecondary(cs, contactId, newPrimaryId, f) ==
    TryUpdate(cs, contactId, SECONDARY, newPrimaryId, f)

(* The precedence written to a re-pointed member of the newer chain *)
RepointedPrecedence == PRIMARY

(* for (const contact of newerChainContacts): re-point the fetched members *)
RECURSIVE RepointChain(_, _, _, _, _)
RepointChain(cs, chain, olderPrimaryId, newerPrimaryId, f) ==
    IF chain = <<>> THEN cs
    ELSE LET contact == Head(chain)
             cs2 == IF contact.id # newerPrimaryId /\ contact.linkPrecedence = SECONDARY
                    THEN TryUpdate(cs, contact.id, RepointedPrecedence, olderPrimaryId, f)
                    ELSE cs
         IN RepointChain(cs2, Tail(chain), olderPrimaryId, newerPrimaryId, f)

(* Faulty variant: a merge with a failed update is undone as a whole *)
mergeContactChainsRollingBack(cs, olderPrimaryId, newerPrimaryId, f) ==
    LET newerChainContacts == getAllLinkedContacts(cs, newerPrimaryId)
        cs2 == IF \E i \in DOMAIN newerChainContacts :
                      newerChainContacts[i].id = newerPrimaryId
               THEN convertPrimaryToSecondary(cs, newerPrimaryId, olderPrimaryId, f)
               ELSE cs
    IN IF \E i \in DOMAIN newerChainContacts : newerChainContacts[i].id \in f.update
       THEN cs
       ELSE RepointChain(cs2, newerChainContacts, olderPrimaryId, newerPrimaryId, f)

mergeContactChains(cs, olderPrimaryId, newerPrimaryId, f) ==
    LET newerChainContacts == getAllLinkedContacts(cs, newerPrimaryId)
        cs2 == IF \E i \in DOMAIN newerChainContacts :
                      newerChainContacts[i].id = newerPrimaryId
               THEN convertPrimaryToSecondary(cs, newerPrimaryId, olderPrimaryId, f)
               ELSE cs
    IN IF newerPrimaryId \in f.merge THEN cs
       ELSE RepointChain(cs2, newerChainContacts, olderPrimaryId, newerPrimaryId, f)

NoResponse ==
    [success |-> FALSE, error |-> NULL, primaryContactId |-> NoId,
     emails |-> <<>>, phoneNumbers |-> <<>>, secondaryContactIds |-> <<>>]

Failure(message) == [NoResponse EXCEPT !.error = message]

Success(primaryContactId, emails, phoneNumbers, secondaryContactIds) ==
    [success |-> TRUE, error |-> NULL, primaryContactId |-> primaryContactId,
     emails |-> emails, phoneNumbers |-> phoneNumbers,
     secondaryContactIds |-> secondaryContactIds]

(* Faulty variant: the comparator is reversed, newest first *)
RECURSIVE SortByCreatedAtDescending(_)
SortByCreatedAtDescending(s) ==
    IF s = <<>> THEN <<>>
    ELSE LET m == CHOOSE i \in DOMAIN s : \A j \in DOMAIN s :
                      \/ s[i].createdAt > s[j].createdAt
                      \/ s[i].createdAt = s[j].createdAt /\ i <= j
         IN <<s[m]>> \o SortByCreatedAtDescending(SubSeq(s, 1, m - 1)
                                                   \o SubSeq(s, m + 1, Len(s)))

(* secondaryContacts.sort((a, b) => a.createdAt - b.createdAt), a stable sort *)
RECURSIVE SortByCreatedAt(_)
SortByCreatedAt(s) ==
    IF s = <<>> THEN <<>>
    ELSE LET m == CHOOSE i \in DOMAIN s : \A j \in DOMAIN s :
                      \/ s[i].createdAt < s[j].createdAt
                      \/ s[i].createdAt = s[j].createdAt /\ i <= j
         IN <<s[m]>> \o SortByCreatedAt(SubSeq(s, 1, m - 1) \o SubSeq(s, m + 1, Len(s)))

(* forEach(contact => { if (contact.email) emails.add(contact.email) }) *)
RECURSIVE CollectEmails(_, _)
CollectEmails(acc, s) ==
    IF s = <<>> THEN acc
    ELSE CollectEmails(IF Head(s).email # NULL THEN AddToSet(acc, Head(s).email) ELSE acc,
                       Tail(s))

RECURSIVE CollectPhones(_, _)
CollectPhones(acc, s) ==
    IF s = <<>> THEN acc
    ELSE CollectPhones(IF Head(s).phoneNumber # NULL
                       THEN AddToSet(acc, Head(s).phoneNumber) ELSE acc,
                       Tail(s))

MapIds(s) == [i \in DOMAIN s |-> s[i].id]

consolidateContactInfo(cs, primaryContactId) ==
    LET allContacts == getAllLinkedContacts(cs, primaryContactId)
        primaryContact == FindPrimary(allContacts)
        secondaryContacts == SortByCreatedAt(SelectSeq(allContacts, IsSecondary))
    IN IF primaryContact = NoContact THEN Failure("Primary contact not found")
       ELSE Success(primaryContact.id,
                    CollectEmails(<<>>, <<primaryContact>> \o secondaryContacts),
                    CollectPhones(<<>>, <<primaryContact>> \o secondaryContacts),
                    MapIds(secondaryContacts))

----------------------------------------------------------------------------
(* IdentityService *)

(* The result of one identifyContact: the store it leaves, the response and *)
(* the branch of the dispatch that produced it.                             *)
Result(cs, response, br) == [cs |-> cs, resp |-> response, branch |-> br]

consolidateAndReturn(cs, primaryContactId) ==
    LET consolidatedResult == consolidateContactInfo(cs, primaryContactId)
    IN IF ~consolidatedResult.success
       THEN Failure("Failed to consolidate contact information")
       ELSE consolidatedResult

isExactDuplicate(found, email, phoneNumber) ==
    \E i \in DOMAIN found :
        found[i].email = email /\ found[i].phoneNumber = phoneNumber

hasMultiplePrimaryContacts(found) == Len(SelectSeq(found, IsPrimary)) > 1

(* Faulty variant: the comparisons with null are left out *)
needsSecondaryContactOfNull(primaryContact, email, phoneNumber) ==
    IF primaryContact.email = email /\ primaryContact.phoneNumber = phoneNumber
    THEN FALSE
    ELSE \/ primaryContact.email = email /\ primaryContact.phoneNumber # phoneNumber
         \/ primaryContact.phoneNumber = phoneNumber /\ primaryContact.email # email

needsSecondaryContact(primaryContact, email, phoneNumber) ==
    IF primaryContact.email = email /\ primaryContact.phoneNumber = phoneNumber
    THEN FALSE
    ELSE IF \/ /\ primaryContact.email = email
               /\ primaryContact.phoneNumber # phoneNumber
               /\ phoneNumber # NULL
            \/ /\ primaryContact.phoneNumber = phoneNumber
               /\ primaryContact.email # email
               /\ email # NULL
    THEN TRUE
    ELSE IF primaryContact.email = NULL /\ email # NULL
            /\ primaryContact.phoneNumber = phoneNumber
    THEN TRUE
    ELSE IF primaryContact.phoneNumber = NULL /\ phoneNumber # NULL
            /\ primaryContact.email = email
    THEN TRUE
    ELSE FALSE

(* Faulty variant: the request is compared with the Primary alone *)
checkIfNeedsNewSecondaryOfPrimary(cs, primaryContactId, email, phoneNumber) ==
    LET allContacts == SelectSeq(getLinkedContactChain(cs, primaryContactId), IsPrimary)
        exactMatch == \E i \in DOMAIN allContacts :
                          /\ allContacts[i].email = email
                          /\ allContacts[i].phoneNumber = phoneNumber
        emailInChain == \E i \in DOMAIN allContacts : allContacts[i].email = email
        phoneInChain == \E i \in DOMAIN allContacts : allContacts[i].phoneNumber = phoneNumber
    IN IF exactMatch THEN FALSE
       ELSE /\ (email # NULL /\ ~emailInChain) \/ (phoneNumber # NULL /\ ~phoneInChain)
            /\ (email # NULL /\ emailInChain) \/ (phoneNumber # NULL /\ phoneInChain)

checkIfNeedsNewSecondary(cs, primaryContactId, email, phoneNumber) ==
    LET allContacts == getLinkedContactChain(cs, primaryContactId)
        exactMatch == \E i \in DOMAIN allContacts :
                          /\ allContacts[i].email = email
                          /\ allContacts[i].phoneNumber = phoneNumber
        emailInChain == \E i \in DOMAIN allContacts : allContacts[i].email = email
        phoneInChain == \E i \in DOMAIN allContacts : allContacts[i].phoneNumber = phoneNumber
        hasNewEmail == email # NULL /\ ~emailInChain
        hasNewPhone == phoneNumber # NULL /\ ~phoneInChain
        hasMatchingEmail == email # NULL /\ emailInChain
        hasMatchingPhone == phoneNumber # NULL /\ phoneInChain
    IN IF exactMatch THEN FALSE
       ELSE (hasNewEmail \/ hasNewPhone) /\ (hasMatchingEmail \/ hasMatchingPhone)

handleNoExistingContacts(cs, t, email, phoneNumber, f, br) ==
    LET createResult == createPrimaryContact(cs, t, email, phoneNumber, f)
        primaryContact == createResult.data
    IN IF ~createResult.success
       THEN Result(cs, Failure("Failed to create new primary contact"), br)
       ELSE Result(createResult.cs,
                   Success(primaryContact.id,
                           IF primaryContact.email # NULL
                           THEN <<primaryContact.email>> ELSE <<>>,
                           IF primaryContact.phoneNumber # NULL
                           THEN <<primaryContact.phoneNumber>> ELSE <<>>,
                           <<>>),
                   br)

handleExactDuplicate(cs, searchResult) ==
    LET primaryContact == IF searchResult.primaryContact # NoContact
                          THEN searchResult.primaryContact
                          ELSE FindPrimary(searchResult.contacts)
    IN IF primaryContact = NoContact
       THEN Result(cs, Failure("No primary contact found in search results"),
                   "exactDuplicate")
       ELSE Result(cs, consolidateAndReturn(cs, primaryContact.id), "exactDuplicate")

handleSinglePrimaryContact(cs, t, searchResult, email, phoneNumber, f) ==
    LET primaryContact == searchResult.primaryContact
        needsSecondary == needsSecondaryContact(primaryContact, email, phoneNumber)
        secondaryResult == createSecondaryContact(cs, t, primaryContact.id,
                                                  email, phoneNumber, f)
    IN IF needsSecondary /\ ~secondaryResult.success
       THEN Result(cs, Failure("Failed to create secondary contact"), "singlePrimary")
       ELSE LET cs2 == IF needsSecondary THEN secondaryResult.cs ELSE cs
            IN Result(cs2, consolidateAndReturn(cs2, primaryContact.id), "singlePrimary")

(* Faulty variant: the loop ends at the first merge that does not go       *)
(* through                                                                  *)
RECURSIVE MergeAllUntilFailure(_, _, _, _)
MergeAllUntilFailure(cs, olderPrimaryId, newerPrimaries, f) ==
    IF newerPrimaries = <<>> THEN cs
    ELSE IF Head(newerPrimaries).id \in f.merge \cup f.update THEN cs
    ELSE MergeAllUntilFailure(
             mergeContactChains(cs, olderPrimaryId, Head(newerPrimaries).id, f),
             olderPrimaryId, Tail(newerPrimaries), f)

(* for (const newerPrimary of newerPrimaries): merge each into the oldest *)
RECURSIVE MergeAll(_, _, _, _)
MergeAll(cs, olderPrimaryId, newerPrimaries, f) ==
    IF newerPrimaries = <<>> THEN cs
    ELSE MergeAll(mergeContactChains(cs, olderPrimaryId, Head(newerPrimaries).id, f),
                  olderPrimaryId, Tail(newerPrimaries), f)

handleMultiplePrimaryContacts(cs, t, found, email, phoneNumber, f) ==
    LET primaryContacts == SortByCreatedAt(SelectSeq(found, IsPrimary))
    IN IF primaryContacts = <<>>
       THEN Result(cs, Failure("No primary contact found in multiple primaries scenario"),
                   "multiplePrimaries")
       ELSE LET olderPrimary == Head(primaryContacts)
                newerPrimaries == Tail(primaryContacts)
                cs2 == MergeAll(cs, olderPrimary.id, newerPrimaries, f)
                needsNewSecondary ==
                    checkIfNeedsNewSecondary(cs2, olderPrimary.id, email, phoneNumber)
                cs3 == IF needsNewSecondary
                       THEN createSecondaryContact(cs2, t, olderPrimary.id,
                                                   email, phoneNumber, f).cs
                       ELSE cs2
            IN Result(cs3, consolidateAndReturn(cs3, olderPrimary.id), "multiplePrimaries")

handleExistingChain(cs, t, searchResult, email, phoneNumber, f) ==
    LET primaryContact == IF searchResult.primaryContact # NoContact
                          THEN searchResult.primaryContact
                          ELSE FindPrimary(searchResult.contacts)
    IN IF primaryContact = NoContact
       THEN LET found == searchResult.contacts
                oldestContact == ReduceOldest(Head(found), Tail(found))
                updated == Len(found) > 0 /\ oldestContact.id \notin f.update
            IN IF updated
               THEN LET cs2 == updateContactLinkage(cs, oldestContact.id, PRIMARY, NoId)
                    IN Result(cs2, consolidateAndReturn(cs2, oldestContact.id),
                              "promoteOldest")
               ELSE handleNoExistingContacts(cs, t, email, phoneNumber, f, "lastResort")
       ELSE LET needsNewSecondary ==
                    checkIfNeedsNewSecondary(cs, primaryContact.id, email, phoneNumber)
                cs2 == IF needsNewSecondary
                       THEN createSecondaryContact(cs, t, primaryContact.id,
                                                   email, phoneNumber, f).cs
                       ELSE cs
            IN Result(cs2, consolidateAndReturn(cs2, primaryContact.id), "existingChain")

(* identifyContact from the point where findExistingContacts has resolved  *)
(* with existingContactsResult; cs is the store as it is by then.           *)
identifyContactAfterSearch(cs, t, existingContactsResult, email, phoneNumber, f) ==
    LET searchResult == existingContactsResult
    IN IF ~existingContactsResult.success
       THEN Result(cs, Failure(existingContactsResult.error), "findFailed")
       ELSE IF Len(searchResult.contacts) = 0
       THEN handleNoExistingContacts(cs, t, email, phoneNumber, f, "noMatch")
       ELSE IF isExactDuplicate(searchResult.contacts, email, phoneNumber)
       THEN handleExactDuplicate(cs, searchResult)
       ELSE IF searchResult.primaryContact # NoContact
               /\ Len(searchResult.secondaryContacts) = 0
       THEN handleSinglePrimaryContact(cs, t, searchResult, email, phoneNumber, f)
       ELSE IF hasMultiplePrimaryContacts(searchResult.contacts)
       THEN handleMultiplePrimaryContacts(cs, t, searchResult.contacts,
                                          email, phoneNumber, f)
       ELSE handleExistingChain(cs, t, searchResult, email, phoneNumber, f)

identifyContact(cs, t, email, phoneNumber, f) ==
    identifyContactAfterSearch(cs, t, findExistingContacts(cs, email, phoneNumber, f),
                               email, phoneNumber, f)

----------------------------------------------------------------------------
(* Integrity repair: DatabaseUtils and EdgeCaseHandler *)

Repaired(cs, n) == [cs |-> cs, fixes |-> n]

(* relation filter `linkedContact: null`: no row is related through linkedId *)
HasNoLinkedContact(cs, c) == ~\E i \in DOMAIN cs : cs[i].id = c.linkedId

(* Faulty variant: the link is cleared but the row stays a Secondary *)
OrphanFixKeepingPrecedence(c) == [c EXCEPT !.linkedId = NoId]

(* The data written by updateMany to every orphaned secondary *)
OrphanFix(c) == [c EXCEPT !.linkPrecedence = PRIMARY, !.linkedId = NoId]

fixOrphanedSecondaryContacts(cs) ==
    LET matched == {i \in DOMAIN cs : /\ cs[i].linkPrecedence = SECONDARY
                                      /\ IsActive(cs[i])
                                      /\ HasNoLinkedContact(cs, cs[i])}
    IN Repaired([i \in DOMAIN cs |-> IF i \in matched THEN OrphanFix(cs[i]) ELSE cs[i]],
                Cardinality(matched))

findPrimaryContacts(cs) ==
    OrderByCreatedAt(cs, {i \in DOMAIN cs : IsPrimary(cs[i]) /\ IsActive(cs[i])})

(* "This is simplified - would need to get all contacts, not just primaries" *)
getAllContacts(cs) == findPrimaryContacts(cs)

(* Faulty variant: coming back to any visited contact counts as circular *)
RECURSIVE WalkLinksToAnyVisited(_, _, _, _)
WalkLinksToAnyVisited(contact, allContacts, currentId, visited) ==
    IF currentId = NoId THEN FALSE
    ELSE IF currentId \in visited THEN TRUE
    ELSE LET linkedContact == FindById(allContacts, currentId)
         IN IF linkedContact = NoContact THEN FALSE
            ELSE IF linkedContact.id = contact.id THEN TRUE
            ELSE WalkLinksToAnyVisited(contact, allContacts, linkedContact.linkedId,
                                       visited \cup {currentId})

(* while (currentId && !visited.has(currentId)) *)
RECURSIVE WalkLinks(_, _, _, _)
WalkLinks(contact, allContacts, currentId, visited) ==
    IF currentId = NoId \/ currentId \in visited THEN FALSE
    ELSE LET linkedContact == FindById(allContacts, currentId)
         IN IF linkedContact = NoContact THEN FALSE
            ELSE IF linkedContact.id = contact.id THEN TRUE
            ELSE WalkLinks(contact, allContacts, linkedContact.linkedId,
                           visited \cup {currentId})

hasCircularReference(contact, allContacts) ==
    IF contact.linkedId = NoId THEN FALSE
    ELSE WalkLinks(contact, allContacts, contact.linkedId, {})

fixCircularReference(cs, contact) == updateContactLinkage(cs, contact.id, PRIMARY, NoId)

RECURSIVE FixCircular(_, _, _)
FixCircular(acc, secondaryContacts, allContacts) ==
    IF secondaryContacts = <<>> THEN acc
    ELSE FixCircular(IF hasCircularReference(Head(secondaryContacts), allContacts)
                     THEN Repaired(fixCircularReference(acc.cs, Head(secondaryContacts)),
                                   acc.fixes + 1)
                     ELSE acc,
                     Tail(secondaryContacts), allContacts)

handleCircularReferences(cs) ==
    LET allContacts == getAllContacts(cs)
        secondaryContacts == SelectSeq(allContacts, IsSecondary)
    IN FixCircular(Repaired(cs, 0), secondaryContacts, allContacts)

(* "This would need proper implementation": both finders return no rows *)
findOrphanedSecondaries(cs) == <<>>

findInvalidSecondaryReferences(cs) == <<>>

fixOrphanedSecondary(cs, contact) == updateContactLinkage(cs, contact.id, PRIMARY, NoId)

fixInvalidSecondaryReference(cs, contact) ==
    updateContactLinkage(cs, contact.id, PRIMARY, NoId)

RECURSIVE FixOrphans(_, _)
FixOrphans(acc, found) ==
    IF found = <<>> THEN acc
    ELSE FixOrphans(Repaired(fixOrphanedSecondary(acc.cs, Head(found)), acc.fixes + 1),
                    Tail(found))

RECURSIVE FixInvalidReferences(_, _)
FixInvalidReferences(acc, found) ==
    IF found = <<>> THEN acc
    ELSE FixInvalidReferences(
             Repaired(fixInvalidSecondaryReference(acc.cs, Head(found)), acc.fixes + 1),
             Tail(found))

handleDatabaseInconsistencies(cs) ==
    LET afterOrphans == FixOrphans(Repaired(cs, 0), findOrphanedSecondaries(cs))
    IN FixInvalidReferences(afterOrphans, findInvalidSecondaryReferences(afterOrphans.cs))

----------------------------------------------------------------------------
(* State machine *)

NoRequest == [email |-> NULL, phoneNumber |-> NULL]

(* What the model keeps of a direct call of a ContactService or            *)
(* IdentityService method: its arguments.                                   *)
NoArgument == [primaryContactId |-> NoId, primaryContact |-> NoContact]

(* What a ContactMatcher method returns, before any has been called *)
NoOutcome ==
    [linkableGroups |-> <<>>, isolatedContacts |-> <<>>, isValid |-> FALSE, issues |-> <<>>, primaryCount |-> 0,
     orphanedSecondaries |-> <<>>, score |-> 0, factors |-> <<>>, isExactMatch |-> FALSE,
     bestMatch |-> NoContact]

(* A field the JSON body does not have (undefined) *)
Absent == "undefined"

(* No request is being handled; also the body express leaves when the     *)
(* Content-Type is not application/json and nothing is parsed              *)
NoBody == [email |-> Absent, phoneNumber |-> Absent, extra |-> FALSE, json |-> FALSE]

(* No response has been written *)
NoStatus == 0

(* The rate limiter has no entry for the client *)
NoEntry == 0

(* The calls that can be in flight at once *)
Callers == {1, 2}

NoSearchResult ==
    [success |-> TRUE, error |-> NULL, contacts |-> <<>>,
     primaryContact |-> NoContact, secondaryContacts |-> <<>>]

(* A call in flight: where it is, its request, what its candidate query    *)
(* returned, the branch it took and its response.                           *)
NoInFlight ==
    [pc |-> "idle", req |-> NoRequest, found |-> NoSearchResult, branch |-> "none",
     resp |-> NoResponse]

(* The variables that only the boundary layer, the direct calls and the     *)
(* concurrent calls use                                                     *)
others == <<arg, returned, fetched, outcome, body, status, requests, calls>>

NoCall == [op |-> "idle", req |-> NoRequest, fail |-> NoFailure, resp |-> NoResponse,
           unchanged |-> TRUE, repairs |-> {}, fixed |-> 0]

RepairOps == {"handleDatabaseInconsistencies", "handleCircularReferences",
              "fixOrphanedSecondaryContacts"}

(* The call that has just been taken, as the next call remembers it, with  *)
(* the repair routines that have run back to back up to and including it    *)
(* and the number of rows they have fixed.                                  *)
ThisCall ==
    [op |-> op, req |-> req, fail |-> fail, resp |-> resp,
     unchanged |-> (contacts = pre),
     repairs |-> IF op \in RepairOps THEN prevCall.repairs \cup {op} ELSE {},
     fixed |-> IF op \in RepairOps THEN prevCall.fixed + fixes ELSE 0]

Idle(cs) ==
    /\ op = "idle"
    /\ req = NoRequest
    /\ fail = NoFailure
    /\ resp = NoResponse
    /\ branch = "none"
    /\ pre = cs
    /\ prevCall = NoCall
    /\ fixes = 0
    /\ arg = NoArgument
    /\ returned = FALSE
    /\ fetched = <<>>
    /\ outcome = NoOutcome
    /\ body = NoBody
    /\ status = NoStatus
    /\ requests = NoEntry
    /\ calls = [p \in Callers |-> NoInFlight]

Init ==
    /\ contacts = <<>>
    /\ now = 1
    /\ Idle(contacts)

(* IdentifyController.identify awaiting identifyContact(r), whose store    *)
(* calls end as f says; `before` is what is remembered of the call before.  *)
IdentifyWith(r, f, before) ==
    \E result \in {identifyContact(contacts, now, r.email, r.phoneNumber, f)} :
       /\ Len(result.cs) <= MaxContacts
       /\ contacts' = result.cs
       /\ now' = IF Len(result.cs) > Len(contacts) THEN now + 1 ELSE now
       /\ op' = "identify"
       /\ req' = r
       /\ fail' = f
       /\ resp' = result.resp
       /\ branch' = result.branch
       /\ pre' = contacts
       /\ prevCall' = before
       /\ fixes' = 0

(* A request arrives when the call before it has been answered *)
Identify ==
    /\ op = "idle"
    /\ \E r \in Requests : IdentifyWith(r, NoFailure, NoCall)
    /\ UNCHANGED others

(* The client sends the request it has just sent once more *)
IdentifyAgain ==
    /\ op = "identify"
    /\ fail = NoFailure
    /\ IdentifyWith(req, NoFailure, ThisCall)
    /\ UNCHANGED others

(* res.status(200).json(response) or res.status(500).json(...): the call   *)
(* is over and nothing of it is kept but the store.                         *)
SendResponse ==
    /\ op = "identify"
    /\ op' = "idle"
    /\ req' = NoRequest
    /\ fail' = NoFailure
    /\ resp' = NoResponse
    /\ branch' = "none"
    /\ pre' = contacts
    /\ prevCall' = NoCall
    /\ UNCHANGED <<contacts, now, fixes>>
    /\ UNCHANGED others

Next == Identify \/ IdentifyAgain \/ SendResponse

Spec == Init /\ [][Next]_vars

(* The same calls on a store whose operations can fail *)
IdentifyFailing ==
    /\ op = "idle"
    /\ \E r \in Requests : \E f \in Failures : IdentifyWith(r, f, NoCall)
    /\ UNCHANGED others

NextFailing == Identify \/ IdentifyFailing \/ SendResponse

SpecFailing == Init /\ [][NextFailing]_vars

(* The repair routines run on any store, also a corrupted one *)
Precedences == {PRIMARY, SECONDARY}

CorruptRow(i, shape) ==
    [id |-> i, email |-> "a", phoneNumber |-> "1", linkedId |-> shape.linkedId,
     linkPrecedence |-> shape.linkPrecedence, createdAt |-> i,
     deletedAt |-> shape.deletedAt]

CorruptStores(max) ==
    UNION {{[i \in 1..n |-> CorruptRow(i, shapes[i])] :
                shapes \in [1..n -> [linkedId : 0..n, linkPrecedence : Precedences,
                                     deletedAt : {NoTime, 1}]]} : n \in 0..max}

InitRepair ==
    /\ contacts \in CorruptStores(MaxCorrupt)
    /\ now = Len(contacts) + 1
    /\ Idle(contacts)

Repair(name, repaired) ==
    /\ contacts' = repaired.cs
    /\ fixes' = repaired.fixes
    /\ op' = name
    /\ pre' = contacts
    /\ prevCall' = [NoCall EXCEPT !.repairs = ThisCall.repairs,
                                  !.fixed = ThisCall.fixed]
    /\ UNCHANGED <<now, req, fail, resp, branch>>
    /\ UNCHANGED others

HandleDatabaseInconsistencies ==
    Repair("handleDatabaseInconsistencies", handleDatabaseInconsistencies(contacts))

HandleCircularReferences ==
    Repair("handleCircularReferences", handleCircularReferences(contacts))

FixOrphanedSecondaryContacts ==
    Repair("fixOrphanedSecondaryContacts", fixOrphanedSecondaryContacts(contacts))

NextRepair ==
    \/ HandleDatabaseInconsistencies
    \/ HandleCircularReferences
    \/ FixOrphanedSecondaryContacts

SpecRepair == InitRepair /\ [][NextRepair]_vars

(* ContactService.consolidateContactInfo and                              *)
(* IdentityService.needsSecondaryContact called directly, on any store and  *)
(* with any argument.                                                       *)
Pairs == [email : Emails \cup {NULL}, phoneNumber : Phones \cup {NULL}]

(* A Primary row holding the pair p *)
PrimaryRow(p) ==
    [id |-> 1, email |-> p.email, phoneNumber |-> p.phoneNumber, linkedId |-> NoId,
     linkPrecedence |-> PRIMARY, createdAt |-> 1, deletedAt |-> NoTime]

DirectCall(name, a, r, response, ret) ==
    /\ op = "idle"
    /\ op' = name
    /\ arg' = a
    /\ req' = r
    /\ resp' = response
    /\ returned' = ret
    /\ pre' = contacts
    /\ UNCHANGED <<contacts, now, fail, branch, prevCall, fixes,
                   fetched, outcome, body, status, requests, calls>>

ConsolidateContactInfo ==
    \E id \in 0..(Len(contacts) + 1) :
        DirectCall("consolidateContactInfo",
                   [NoArgument EXCEPT !.primaryContactId = id], NoRequest,
                   consolidateContactInfo(contacts, id), FALSE)

NeedsSecondaryContact ==
    \E p \in Pairs : \E r \in Pairs :
        DirectCall("needsSecondaryContact",
                   [NoArgument EXCEPT !.primaryContact = PrimaryRow(p)], r,
                   NoResponse,
                   needsSecondaryContact(PrimaryRow(p), r.email, r.phoneNumber))

(* ContactRepository.getAllLinkedContacts called with any id *)
GetAllLinkedContacts ==
    /\ op = "idle"
    /\ \E id \in 0..(Len(contacts) + 1) :
          /\ arg' = [NoArgument EXCEPT !.primaryContactId = id]
          /\ fetched' = getAllLinkedContacts(contacts, id)
    /\ op' = "getAllLinkedContacts"
    /\ pre' = contacts
    /\ UNCHANGED <<contacts, now, req, fail, resp, branch, prevCall, fixes,
                   returned, outcome, body, status, requests, calls>>

(* EdgeCaseHandler.hasCircularReference called with any contact of the    *)
(* store and any selection of its contacts as allContacts                   *)
HasCircularReference ==
    /\ op = "idle"
    /\ \E i \in DOMAIN contacts : \E S \in SUBSET DOMAIN contacts :
          LET allContacts == OrderByCreatedAt(contacts, S)
          IN /\ arg' = [NoArgument EXCEPT !.primaryContact = contacts[i]]
             /\ fetched' = allContacts
             /\ returned' = hasCircularReference(contacts[i], allContacts)
    /\ op' = "hasCircularReference"
    /\ pre' = contacts
    /\ UNCHANGED <<contacts, now, req, fail, resp, branch, prevCall, fixes,
                   outcome, body, status, requests, calls>>

(* The method has returned to its caller *)
ReturnFromCall ==
    /\ op \in {"consolidateContactInfo", "needsSecondaryContact", "getAllLinkedContacts",
               "hasCircularReference"}
    /\ op' = "idle"
    /\ arg' = NoArgument
    /\ req' = NoRequest
    /\ resp' = NoResponse
    /\ returned' = FALSE
    /\ fetched' = <<>>
    /\ outcome' = NoOutcome
    /\ UNCHANGED <<contacts, now, fail, branch, pre, prevCall, fixes,
                   body, status, requests, calls>>

NextService ==
    \/ ConsolidateContactInfo
    \/ NeedsSecondaryContact
    \/ GetAllLinkedContacts
    \/ HasCircularReference
    \/ ReturnFromCall

SpecService == InitRepair /\ [][NextService]_vars

(* Calls in flight at the same time. Every store call of identifyContact  *)
(* is awaited and nothing spans two of them, so another call can run        *)
(* between the candidate query and what follows it.                         *)
(* The call is made and its candidate query runs: nothing touches the     *)
(* store between the two.                                                   *)
(* await this.contactService.findExistingContacts(email, phoneNumber)       *)
FindExistingContacts(p) ==
    /\ calls[p].pc = "idle"
    /\ \E r \in Requests :
          calls' = [calls EXCEPT ![p] =
                       [NoInFlight EXCEPT
                           !.pc = "found",
                           !.req = r,
                           !.found = findExistingContacts(contacts, r.email,
                                                          r.phoneNumber, NoFailure)]]
    /\ UNCHANGED <<contacts, now, op, req, fail, resp, branch, pre, prevCall, fixes,
                   arg, returned, fetched, outcome, body, status, requests>>

(* The branch chosen from what the query returned, on the store as it is now *)
HandleFound(p) ==
    /\ calls[p].pc = "found"
    /\ \E result \in {identifyContactAfterSearch(contacts, now, calls[p].found,
                                                 calls[p].req.email,
                                                 calls[p].req.phoneNumber, NoFailure)} :
          /\ Len(result.cs) <= MaxRacing
          /\ contacts' = result.cs
          /\ now' = IF Len(result.cs) > Len(contacts) THEN now + 1 ELSE now
          /\ calls' = [calls EXCEPT ![p].pc = "done",
                                    ![p].branch = result.branch,
                                    ![p].resp = result.resp]
    /\ UNCHANGED <<op, req, fail, resp, branch, pre, prevCall, fixes,
                   arg, returned, fetched, outcome, body, status, requests>>

Answer(p) ==
    /\ calls[p].pc = "done"
    /\ calls' = [calls EXCEPT ![p] = NoInFlight]
    /\ UNCHANGED <<contacts, now, op, req, fail, resp, branch, pre, prevCall, fixes,
                   arg, returned, fetched, outcome, body, status, requests>>

NextConcurrent ==
    \E p \in Callers :
        FindExistingContacts(p) \/ HandleFound(p) \/ Answer(p)

SpecConcurrent == Init /\ [][NextConcurrent]_vars

(* POST /identify: the middleware chain of the route and the controller   *)

(* const MAX_REQUESTS = 100 *)
MAX_REQUESTS == 100

(* Field values of a JSON body: absent, null, or a string. "A" is the      *)
(* address "a" in upper case, "<b>a" the address with a tag in front,       *)
(* "1-" the number "1" with a separator, "-" a separator alone.             *)
BodyEmails == {Absent, NULL, "", " ", "a", "A", "<b>a"}

BodyPhones == {Absent, NULL, "", " ", "-", "1", "1-"}

Bodies ==
    [email : BodyEmails, phoneNumber : BodyPhones, extra : BOOLEAN, json : {TRUE}]
        \cup {NoBody}

(* JavaScript truthiness of a field value *)
Truthy(v) == v \notin {Absent, NULL, ""}

(* String.prototype.trim *)
Trim(v) == IF v = " " THEN "" ELSE v

(* replace(/<[^>]*>/g, '') *)
StripTags(v) == IF v = "<b>a" THEN "a" ELSE v

(* String.prototype.toLowerCase *)
ToLowerCase(v) == IF v = "A" THEN "a" ELSE v

(* replace(/[\s\-\(\)\.]/g, '') *)
StripSeparators(v) ==
    IF v \in {"-", " "} THEN "" ELSE IF v = "1-" THEN "1" ELSE v

(* rateLimiter: the entry of the client after this request, or the refusal; *)
(* expired says whether the entry's window is over when the request comes.  *)
rateLimiter(count, expired) ==
    IF count = NoEntry \/ expired THEN [refused |-> FALSE, count |-> 1]
    ELSE IF count >= MAX_REQUESTS THEN [refused |-> TRUE, count |-> count]
    ELSE [refused |-> FALSE, count |-> count + 1]

validateContentType(b) == b.json

(* !req.body || Object.keys(req.body).length === 0 is refused *)
validateRequestBody(b) ==
    b.email # Absent \/ b.phoneNumber # Absent \/ b.extra

sanitizeInput(b) ==
    [b EXCEPT !.email = IF Truthy(b.email) THEN Trim(StripTags(b.email)) ELSE b.email,
              !.phoneNumber = IF Truthy(b.phoneNumber)
                              THEN Trim(StripTags(b.phoneNumber)) ELSE b.phoneNumber]

normalizeEmail(b) ==
    [b EXCEPT !.email = IF Truthy(b.email) THEN ToLowerCase(Trim(b.email)) ELSE b.email]

normalizePhoneNumber(b) ==
    [b EXCEPT !.phoneNumber = IF Truthy(b.phoneNumber)
                              THEN StripSeparators(b.phoneNumber) ELSE b.phoneNumber]

(* z.string().trim().min(3).email().toLowerCase() accepts the value *)
emailSchema(v) == ToLowerCase(Trim(v)) \in Emails

(* /^[\d\s\-\(\)\+\.]+$/ *)
phoneRegex(v) == v \in Phones \cup {"1-", "-", " "}

(* z.string() with the two refinements accepts the value *)
phoneNumberSchema(v) == Trim(v) # "" /\ phoneRegex(v)

(* Faulty variant: the schema without its refinement on the two fields *)
identifyRequestSchemaUnrefined(email, phoneNumber) ==
    /\ email \in {Absent, NULL} \/ emailSchema(email)
    /\ phoneNumber \in {Absent, NULL} \/ phoneNumberSchema(phoneNumber)

(* identifyRequestSchema.safeParse({email, phoneNumber}).success *)
identifyRequestSchema(email, phoneNumber) ==
    /\ email \in {Absent, NULL} \/ emailSchema(email)
    /\ phoneNumber \in {Absent, NULL} \/ phoneNumberSchema(phoneNumber)
    /\ Truthy(email) \/ Truthy(phoneNumber)

(* value || null *)
OrNull(v) == IF Truthy(v) THEN v ELSE NULL

(* The request as the controller sees it, after the three rewriting steps *)
Normalized(b) == normalizePhoneNumber(normalizeEmail(sanitizeInput(b)))

(* A response written without a call of identifyContact *)
Reject(b, code, count) ==
    /\ op' = "rejected"
    /\ body' = b
    /\ status' = code
    /\ requests' = count
    /\ pre' = contacts
    /\ UNCHANGED <<contacts, now, req, fail, resp, branch, prevCall, fixes,
                   arg, returned, fetched, outcome, calls>>

PostIdentify ==
    /\ op = "idle"
    /\ \E b \in Bodies : \E expired \in BOOLEAN :
          LET limit == rateLimiter(requests, expired)
              n == Normalized(b)
          IN IF limit.refused THEN Reject(b, 429, limit.count)
             ELSE IF ~validateContentType(b) THEN Reject(b, 400, limit.count)
             ELSE IF ~validateRequestBody(b) THEN Reject(b, 400, limit.count)
             ELSE IF ~identifyRequestSchema(n.email, n.phoneNumber)
             THEN Reject(b, 400, limit.count)
             ELSE /\ IdentifyWith([email |-> OrNull(n.email),
                                   phoneNumber |-> OrNull(n.phoneNumber)],
                                  NoFailure, NoCall)
                  /\ Len(contacts') <= MaxPosted
                  /\ body' = b
                  /\ status' = IF resp'.success THEN 200 ELSE 500
                  /\ requests' = limit.count
                  /\ UNCHANGED <<arg, returned, fetched, outcome, calls>>

(* The response has gone out; the rate limiter keeps its entry *)
EndRequest ==
    /\ op \in {"identify", "rejected"}
    /\ op' = "idle"
    /\ req' = NoRequest
    /\ fail' = NoFailure
    /\ resp' = NoResponse
    /\ branch' = "none"
    /\ pre' = contacts
    /\ prevCall' = NoCall
    /\ body' = NoBody
    /\ status' = NoStatus
    /\ UNCHANGED <<contacts, now, fixes, arg, returned, fetched, outcome, requests, calls>>

NextHttp == PostIdentify \/ EndRequest

SpecHttp == Init /\ [][NextHttp]_vars

----------------------------------------------------------------------------
(* ContactMatcher *)

(* Faulty variant: the comparison without the two truthiness tests *)
hasSharedEmailOfNull(contact1, contact2) == contact1.email = contact2.email

(* !!(contact1.email && contact2.email && contact1.email === contact2.email) *)
hasSharedEmail(contact1, contact2) ==
    Truthy(contact1.email) /\ Truthy(contact2.email) /\ contact1.email = contact2.email

hasSharedPhone(contact1, contact2) ==
    /\ Truthy(contact1.phoneNumber) /\ Truthy(contact2.phoneNumber)
    /\ contact1.phoneNumber = contact2.phoneNumber

shouldLink(contact1, contact2) ==
    hasSharedEmail(contact1, contact2) \/ hasSharedPhone(contact1, contact2)

(* Faulty variant: the contacts linked to baseContact itself, and no further *)
RECURSIVE ScanDirectLinks(_, _, _, _)
ScanDirectLinks(baseContact, allContacts, k, st) ==
    IF k > Len(allContacts) THEN st
    ELSE IF allContacts[k].id \notin st.processed /\ shouldLink(baseContact, allContacts[k])
         THEN ScanDirectLinks(baseContact, allContacts, k + 1,
                  [group |-> Append(st.group, allContacts[k]),
                   processed |-> st.processed \cup {allContacts[k].id}])
         ELSE ScanDirectLinks(baseContact, allContacts, k + 1, st)

(* The loop of findLinkedContacts from position k on: group and processed *)
(* are shared with the nested calls, which start at the head of the list   *)
RECURSIVE ScanLinkedContacts(_, _, _, _)
ScanLinkedContacts(baseContact, allContacts, k, st) ==
    IF k > Len(allContacts) THEN st
    ELSE LET contact == allContacts[k]
         IN IF contact.id \in st.processed
            THEN ScanLinkedContacts(baseContact, allContacts, k + 1, st)
            ELSE IF shouldLink(baseContact, contact)
                 THEN ScanLinkedContacts(baseContact, allContacts, k + 1,
                          ScanLinkedContacts(contact, allContacts, 1,
                              [group |-> Append(st.group, contact),
                               processed |-> st.processed \cup {contact.id}]))
                 ELSE ScanLinkedContacts(baseContact, allContacts, k + 1, st)

findLinkedContacts(baseContact, allContacts, group, processed) ==
    ScanLinkedContacts(baseContact, allContacts, 1,
                       [group |-> group, processed |-> processed])

(* The loop of groupLinkableContacts from position k on *)
RECURSIVE GroupFrom(_, _, _, _)
GroupFrom(list, k, groups, processed) ==
    IF k > Len(list) THEN groups
    ELSE IF list[k].id \in processed THEN GroupFrom(list, k + 1, groups, processed)
    ELSE LET found == findLinkedContacts(list[k], list, <<list[k]>>,
                                         processed \cup {list[k].id})
         IN GroupFrom(list, k + 1,
                      IF Len(found.group) > 1 THEN Append(groups, found.group)
                      ELSE groups,
                      found.processed)

groupLinkableContacts(list) == GroupFrom(list, 1, <<>>, {})

analyzeContactLinkage(list) ==
    LET linkableGroups == groupLinkableContacts(list)
        linkedContactIds ==
            UNION {{c.id : c \in Range(g)} : g \in Range(linkableGroups)}
        IsIsolated(c) == c.id \notin linkedContactIds
    IN [linkableGroups |-> linkableGroups,
        isolatedContacts |-> SelectSeq(list, IsIsolated)]

(* Faulty variant: a Secondary whose linkedId finds no contact is let through *)
orphanedSecondaryFound(list, secondary) ==
    LET linkedPrimary == FindById(list, secondary.linkedId)
    IN linkedPrimary # NoContact /\ linkedPrimary.linkPrecedence # PRIMARY

(* !linkedPrimary || linkedPrimary.linkPrecedence !== LinkPrecedence.PRIMARY *)
orphanedSecondary(list, secondary) ==
    LET linkedPrimary == FindById(list, secondary.linkedId)
    IN linkedPrimary = NoContact \/ linkedPrimary.linkPrecedence # PRIMARY

(* linkedContact && linkedContact.linkPrecedence === LinkPrecedence.SECONDARY *)
invalidSecondary(list, secondary) ==
    LET linkedContact == FindById(list, secondary.linkedId)
    IN linkedContact # NoContact /\ linkedContact.linkPrecedence = SECONDARY

(* An issue is its message with the count the message ends with *)
validateContactChain(list) ==
    LET IsOrphaned(c) == orphanedSecondary(list, c)
        IsInvalid(c) == invalidSecondary(list, c)
        secondaryContacts == SelectSeq(list, IsSecondary)
        primaryCount == Len(SelectSeq(list, IsPrimary))
        orphanedSecondaries == SelectSeq(secondaryContacts, IsOrphaned)
        invalidSecondaries == SelectSeq(secondaryContacts, IsInvalid)
        issues ==
            (IF primaryCount > 1
             THEN <<[message |-> "Multiple primary contacts found", count |-> primaryCount]>>
             ELSE <<>>)
            \o (IF Len(orphanedSecondaries) > 0
                THEN <<[message |-> "Orphaned secondary contacts",
                        count |-> Len(orphanedSecondaries)]>>
                ELSE <<>>)
            \o (IF Len(invalidSecondaries) > 0
                THEN <<[message |-> "Secondary contacts linked to other secondaries",
                        count |-> Len(invalidSecondaries)]>>
                ELSE <<>>)
    IN [isValid |-> Len(issues) = 0, issues |-> issues, primaryCount |-> primaryCount,
        orphanedSecondaries |-> orphanedSecondaries]

scoreContactMatch(contact, email, phoneNumber) ==
    IF contact.email = email /\ contact.phoneNumber = phoneNumber
    THEN [score |-> 100, factors |-> <<"Exact match: same email and phone">>,
          isExactMatch |-> TRUE]
    ELSE LET emailMatch == Truthy(email) /\ contact.email = email
             phoneMatch == Truthy(phoneNumber) /\ contact.phoneNumber = phoneNumber
             missingEmail == /\ Truthy(email) /\ ~Truthy(contact.email)
                             /\ contact.phoneNumber = phoneNumber
             missingPhone == /\ Truthy(phoneNumber) /\ ~Truthy(contact.phoneNumber)
                             /\ contact.email = email
         IN [score |-> (IF emailMatch THEN 50 ELSE 0) + (IF phoneMatch THEN 50 ELSE 0)
                       + (IF missingEmail THEN 30 ELSE 0)
                       + (IF missingPhone THEN 30 ELSE 0),
             factors |-> (IF emailMatch THEN <<"Email match">> ELSE <<>>)
                         \o (IF phoneMatch THEN <<"Phone match">> ELSE <<>>)
                         \o (IF missingEmail THEN <<"Phone match with missing email">>
                             ELSE <<>>)
                         \o (IF missingPhone THEN <<"Email match with missing phone">>
                             ELSE <<>>),
             isExactMatch |-> FALSE]

(* Faulty variant: a later contact with the same score replaces the best one *)
RECURSIVE BestFromLast(_, _, _, _, _)
BestFromLast(list, k, email, phoneNumber, best) ==
    IF k > Len(list) THEN best
    ELSE LET scored == scoreContactMatch(list[k], email, phoneNumber)
         IN BestFromLast(list, k + 1, email, phoneNumber,
                IF scored.score >= best.score /\ scored.score > 0
                THEN [bestMatch |-> list[k], score |-> scored.score,
                      factors |-> scored.factors]
                ELSE best)

(* The loop of findBestMatch from position k on: if (score > bestScore) *)
RECURSIVE BestFrom(_, _, _, _, _)
BestFrom(list, k, email, phoneNumber, best) ==
    IF k > Len(list) THEN best
    ELSE LET scored == scoreContactMatch(list[k], email, phoneNumber)
         IN BestFrom(list, k + 1, email, phoneNumber,
                IF scored.score > best.score
                THEN [bestMatch |-> list[k], score |-> scored.score,
                      factors |-> scored.factors]
                ELSE best)

findBestMatch(list, email, phoneNumber) ==
    IF Len(list) = 0 THEN [bestMatch |-> NoContact, score |-> 0, factors |-> <<>>]
    ELSE BestFrom(list, 1, email, phoneNumber,
                  [bestMatch |-> NoContact, score |-> 0, factors |-> <<>>])

(* The methods of ContactMatcher called directly. A contact handed to them *)
(* holds what a stored contact can hold: null or a value in each field.     *)
AttributeRow(i, p) ==
    [id |-> i, email |-> p.email, phoneNumber |-> p.phoneNumber, linkedId |-> NoId,
     linkPrecedence |-> PRIMARY, createdAt |-> i, deletedAt |-> NoTime]

MatcherCall(name, r, list, ret, out) ==
    /\ op' = name
    /\ req' = r
    /\ fetched' = list
    /\ returned' = ret
    /\ outcome' = out
    /\ UNCHANGED <<contacts, now, fail, resp, branch, pre, prevCall, fixes,
                   arg, body, status, requests, calls>>

ShouldLink ==
    /\ op = "idle"
    /\ \E p \in Pairs : \E q \in Pairs :
        MatcherCall("shouldLink", NoRequest, <<AttributeRow(1, p), AttributeRow(2, q)>>,
                    shouldLink(AttributeRow(1, p), AttributeRow(2, q)), NoOutcome)

(* A list of contacts with ids 1, 2, ...; the methods are called with *)
(* every list of up to MaxListed contacts                             *)
AttributeList(ps) == [k \in DOMAIN ps |-> AttributeRow(k, ps[k])]

AnalyzeContactLinkage ==
    /\ op = "idle"
    /\ \E n \in 0..MaxListed : \E ps \in [1..n -> Pairs] :
        LET list == AttributeList(ps)
            analysis == analyzeContactLinkage(list)
        IN MatcherCall("analyzeContactLinkage", NoRequest, list, FALSE,
                       [NoOutcome EXCEPT !.linkableGroups = analysis.linkableGroups,
                                         !.isolatedContacts = analysis.isolatedContacts])

(* A list of contacts of either precedence, whose linkedId is null, the id *)
(* of a contact of the list or of none                                     *)
LinkageList(shapes) ==
    [i \in DOMAIN shapes |-> CorruptRow(i, [linkedId |-> shapes[i].linkedId,
                                            linkPrecedence |-> shapes[i].linkPrecedence,
                                            deletedAt |-> NoTime])]

ValidateContactChain ==
    /\ op = "idle"
    /\ \E n \in 0..MaxListed :
       \E shapes \in [1..n -> [linkedId : 0..(n + 1), linkPrecedence : Precedences]] :
        LET list == LinkageList(shapes)
            validation == validateContactChain(list)
        IN MatcherCall("validateContactChain", NoRequest, list, validation.isValid,
                       [NoOutcome EXCEPT
                            !.isValid = validation.isValid,
                            !.issues = validation.issues,
                            !.primaryCount = validation.primaryCount,
                            !.orphanedSecondaries = validation.orphanedSecondaries])

(* email?: string | null, phoneNumber?: string | null *)
AskedPairs ==
    [email : Emails \cup {NULL, Absent}, phoneNumber : Phones \cup {NULL, Absent}]

ScoreContactMatch ==
    /\ op = "idle"
    /\ \E p \in Pairs : \E r \in AskedPairs :
        LET scored == scoreContactMatch(AttributeRow(1, p), r.email, r.phoneNumber)
        IN MatcherCall("scoreContactMatch", r, <<AttributeRow(1, p)>>, scored.isExactMatch,
                       [NoOutcome EXCEPT !.score = scored.score,
                                         !.factors = scored.factors,
                                         !.isExactMatch = scored.isExactMatch])

FindBestMatch ==
    /\ op = "idle"
    /\ \E n \in 0..MaxListed : \E ps \in [1..n -> Pairs] : \E r \in AskedPairs :
        LET list == AttributeList(ps)
            best == findBestMatch(list, r.email, r.phoneNumber)
        IN MatcherCall("findBestMatch", r, list, best.bestMatch # NoContact,
                       [NoOutcome EXCEPT !.score = best.score,
                                         !.factors = best.factors,
                                         !.bestMatch = best.bestMatch])

(* The method has returned to its caller *)
ReturnFromMatcher ==
    /\ op \in {"shouldLink", "analyzeContactLinkage", "validateContactChain",
               "scoreContactMatch", "findBestMatch"}
    /\ op' = "idle"
    /\ req' = NoRequest
    /\ fetched' = <<>>
    /\ returned' = FALSE
    /\ outcome' = NoOutcome
    /\ UNCHANGED <<contacts, now, fail, resp, branch, pre, prevCall, fixes,
                   arg, body, status, requests, calls>>

NextMatcher ==
    \/ ShouldLink
    \/ AnalyzeContactLinkage
    \/ ValidateContactChain
    \/ ScoreContactMatch
    \/ FindBestMatch
    \/ ReturnFromMatcher

SpecMatcher == Init /\ [][NextMatcher]_vars

----------------------------------------------------------------------------
(* The health routes *)

sampleContacts ==
    <<[email |-> "lorraine@hillvalley.edu", phoneNumber |-> "123456",
       linkPrecedence |-> PRIMARY],
      [email |-> "mcfly@hillvalley.edu", phoneNumber |-> "123456",
       linkPrecedence |-> SECONDARY],
      [email |-> "george@hillvalley.edu", phoneNumber |-> "919191",
       linkPrecedence |-> PRIMARY],
      [email |-> "biffsucks@hillvalley.edu", phoneNumber |-> "717171",
       linkPrecedence |-> PRIMARY]>>

(* The inserts of seedDatabase from the k-th sample on; the second sample is *)
(* linked to the row the first insert returned. With the database down every *)
(* insert fails in the repository and nothing is collected.                  *)
RECURSIVE SeedFrom(_, _, _, _)
SeedFrom(cs, t, k, firstId) ==
    IF k > Len(sampleContacts) THEN cs
    ELSE SeedFrom(createContact(cs, t,
                      [email |-> sampleContacts[k].email,
                       phoneNumber |-> sampleContacts[k].phoneNumber,
                       linkPrecedence |-> sampleContacts[k].linkPrecedence,
                       linkedId |-> IF k = 2 THEN firstId ELSE NoId]),
                  t + 1, k + 1, IF k = 1 THEN Len(cs) + 1 ELSE firstId)

seedDatabase(cs, t, up) ==
    IF up
    THEN LET seeded == SeedFrom(cs, t, 1, NoId)
         IN [success |-> TRUE, cs |-> seeded,
             data |-> SubSeq(seeded, Len(cs) + 1, Len(seeded))]
    ELSE [success |-> TRUE, cs |-> cs, data |-> <<>>]

(* The counts of getDatabaseHealth; linkedContact: null is a null linkedId *)
getDatabaseHealth(cs, up) ==
    IF ~up THEN [success |-> FALSE, isHealthy |-> FALSE, totalContacts |-> 0]
    ELSE [success |-> TRUE, isHealthy |-> TRUE,
          totalContacts |-> Cardinality({i \in DOMAIN cs : IsActive(cs[i])})]

validateDatabaseIntegrity(cs, up) ==
    IF ~up THEN [success |-> FALSE, isValid |-> FALSE]
    ELSE LET secondaries == {i \in DOMAIN cs : IsActive(cs[i]) /\ IsSecondary(cs[i])}
             orphanedSecondaries == {i \in secondaries : cs[i].linkedId = NoId}
             invalidLinkedContacts ==
                 {i \in secondaries :
                     /\ cs[i].linkedId \in DOMAIN cs
                     /\ IsSecondary(cs[cs[i].linkedId])}
             emptyContacts ==
                 {i \in DOMAIN cs : /\ IsActive(cs[i]) /\ cs[i].email = NULL
                                    /\ cs[i].phoneNumber = NULL}
         IN [success |-> TRUE,
             isValid |-> /\ orphanedSecondaries = {} /\ invalidLinkedContacts = {}
                         /\ emptyContacts = {}]

HealthOps == {"health", "healthDetailed", "healthDatabase"}

(* A health route has answered: code is the status of the response *)
HealthAnswer(name, code, cs, t, created) ==
    /\ op' = name
    /\ status' = code
    /\ contacts' = cs
    /\ now' = t
    /\ fetched' = created
    /\ pre' = contacts
    /\ UNCHANGED <<req, fail, resp, branch, prevCall, fixes,
                   arg, returned, outcome, body, requests, calls>>

(* GET /health: up is what checkDatabaseHealth answers *)
GetHealth ==
    /\ op = "idle"
    /\ \E up \in BOOLEAN :
          HealthAnswer("health", IF up THEN 200 ELSE 503, contacts, now, <<>>)

(* GET /health/detailed: the statistics, health and integrity queries only read *)
GetHealthDetailed ==
    /\ op = "idle"
    /\ \E up \in BOOLEAN :
          HealthAnswer("healthDetailed", IF up THEN 200 ELSE 503, contacts, now, <<>>)

(* GET /health/database: health and integrity are read before the seeding *)
GetHealthDatabase ==
    /\ op = "idle"
    /\ Len(contacts) <= MaxContacts
    /\ \E up \in BOOLEAN :
          LET healthResult == getDatabaseHealth(contacts, up)
              integrityResult == validateDatabaseIntegrity(contacts, up)
              seedResult == seedDatabase(contacts, now, up)
          IN HealthAnswer("healthDatabase",
                          IF ~healthResult.success THEN 503
                          ELSE IF healthResult.isHealthy /\ integrityResult.isValid
                               THEN 200 ELSE 503,
                          seedResult.cs, now + Len(seedResult.data), seedResult.data)

EndHealthCheck ==
    /\ op \in HealthOps
    /\ op' = "idle"
    /\ status' = NoStatus
    /\ fetched' = <<>>
    /\ pre' = contacts
    /\ UNCHANGED <<contacts, now, req, fail, resp, branch, prevCall, fixes,
                   arg, returned, outcome, body, requests, calls>>

NextHealth ==
    \/ Identify
    \/ SendResponse
    \/ GetHealth
    \/ GetHealthDetailed
    \/ GetHealthDatabase
    \/ EndHealthCheck

SpecHealth == Init /\ [][NextHealth]_vars

----------------------------------------------------------------------------
(* The rate limiter with its Map of clients and the clock *)

WINDOW_SIZE == 60 * 1000

ClientIPs == {"10.0.0.1", "10.0.0.2"}

(* requests.get(clientIP) of a client the Map does not hold *)
NoClientRequests == [count |-> NoEntry, resetTime |-> 0]

(* Faulty variant: the window is over as soon as resetTime is reached *)
rateLimiterAtResetTime(clientRequests, t) ==
    LET expired == clientRequests.count # NoEntry /\ t >= clientRequests.resetTime
        limit == rateLimiter(clientRequests.count, expired)
    IN [refused |-> limit.refused,
        clientRequests |->
            IF clientRequests.count = NoEntry \/ expired
            THEN [count |-> 1, resetTime |-> t + WINDOW_SIZE]
            ELSE [clientRequests EXCEPT !.count = limit.count]]

(* The middleware for one request of a client at time t = Date.now() *)
rateLimiterAt(clientRequests, t) ==
    LET expired == clientRequests.count # NoEntry /\ t > clientRequests.resetTime
        limit == rateLimiter(clientRequests.count, expired)
    IN [refused |-> limit.refused,
        clientRequests |->
            IF clientRequests.count = NoEntry \/ expired
            THEN [count |-> 1, resetTime |-> t + WINDOW_SIZE]
            ELSE [clientRequests EXCEPT !.count = limit.count]]

(* Here requests is the whole Map and now is Date.now() *)
InitLimiter ==
    /\ contacts = <<>>
    /\ now = 0
    /\ op = "idle"
    /\ req = NoRequest
    /\ fail = NoFailure
    /\ resp = NoResponse
    /\ branch = "none"
    /\ pre = contacts
    /\ prevCall = NoCall
    /\ fixes = 0
    /\ arg = NoArgument
    /\ returned = FALSE
    /\ fetched = <<>>
    /\ outcome = NoOutcome
    /\ body = NoBody
    /\ status = NoStatus
    /\ requests = [ip \in ClientIPs |-> NoClientRequests]
    /\ calls = [p \in Callers |-> NoInFlight]

(* A request of one client passes through the middleware: at once, when the *)
(* window of WINDOW_SIZE has just run out, or one millisecond later.         *)
RateLimiter ==
    \E clientIP \in ClientIPs : \E t \in {now, now + WINDOW_SIZE, now + WINDOW_SIZE + 1} :
        LET limited == rateLimiterAt(requests[clientIP], t)
        IN /\ t <= MaxWindows * (WINDOW_SIZE + 1)
           /\ now' = t
           /\ requests' = [requests EXCEPT ![clientIP] = limited.clientRequests]
           /\ op' = "rateLimiter"
           /\ arg' = [clientIP |-> clientIP]
           /\ status' = IF limited.refused THEN 429 ELSE NoStatus
           /\ returned' = ~limited.refused
           /\ UNCHANGED <<contacts, req, fail, resp, branch, pre, prevCall, fixes,
                          fetched, outcome, body, calls>>

SpecLimiter == InitLimiter /\ [][RateLimiter]_vars

----------------------------------------------------------------------------
(* Properties *)

ActiveIds(cs) == {i \in DOMAIN cs : IsActive(cs[i])}

(* The candidates of the call just taken, read from the store it started on *)
Candidates == findContactsByEmailOrPhone(pre, req.email, req.phoneNumber)

Identified == op = "identify"

Created == Len(contacts) - Len(pre)

(* The rows the call found are as they were, in every column *)
Untouched == \A i \in DOMAIN pre : contacts[i] = pre[i]

(* C1: after any sequence of identify calls whose store operations all     *)
(* succeed, every active Primary has linkedId null and every active         *)
(* Secondary is linked to an active Primary.                                *)
C1_LinkageInvariant ==
    \A i \in ActiveIds(contacts) :
        /\ contacts[i].linkPrecedence = PRIMARY => contacts[i].linkedId = NoId
        /\ contacts[i].linkPrecedence = SECONDARY =>
              /\ contacts[i].linkedId \in ActiveIds(contacts)
              /\ contacts[contacts[i].linkedId].linkPrecedence = PRIMARY

(* C2: with two unrelated Primaries P1 (older) and P2 (younger) in the     *)
(* store, identify(P1.email, P2.phoneNumber) leaves P2 a Secondary of P1    *)
(* and answers with P1 and the emails and phone numbers of both.            *)
C2_CrossPrimaryMerge ==
    Identified /\ fail = NoFailure /\ Len(pre) = 2 =>
        \A p1, p2 \in ActiveIds(pre) :
            /\ pre[p1].linkPrecedence = PRIMARY /\ pre[p2].linkPrecedence = PRIMARY
            /\ pre[p1].createdAt < pre[p2].createdAt
            /\ pre[p1].email # pre[p2].email
            /\ pre[p1].phoneNumber # pre[p2].phoneNumber
            /\ req.email # NULL /\ req.email = pre[p1].email
            /\ req.phoneNumber # NULL /\ req.phoneNumber = pre[p2].phoneNumber
            => /\ contacts[p2].linkPrecedence = SECONDARY
               /\ contacts[p2].linkedId = p1
               /\ resp.success
               /\ resp.primaryContactId = p1
               /\ {pre[p1].email, pre[p2].email} \ {NULL} \subseteq Range(resp.emails)
               /\ {pre[p1].phoneNumber, pre[p2].phoneNumber} \ {NULL}
                      \subseteq Range(resp.phoneNumbers)

HasExactPair(cs, r) ==
    \E i \in ActiveIds(cs) :
        cs[i].email = r.email /\ cs[i].phoneNumber = r.phoneNumber

(* C3: identify with a pair that an active contact holds verbatim succeeds  *)
(* and changes nothing, and sent twice in a row it names the same primary.  *)
C3_ExactPairIdempotent ==
    Identified /\ fail = NoFailure /\ HasExactPair(pre, req) =>
        /\ resp.success
        /\ contacts = pre
        /\ prevCall.op = "identify" /\ prevCall.unchanged =>
              /\ prevCall.resp.success
              /\ prevCall.resp.primaryContactId = resp.primaryContactId

(* The Primary of the chain a contact belongs to: itself, or one hop *)
ChainPrimaryOf(c) == IF c.linkPrecedence = PRIMARY THEN c.id ELSE c.linkedId

(* C4: in the exact-duplicate branch the answer names the Primary of the    *)
(* duplicate candidate's own chain.                                         *)
C4_DuplicateResolvesToOwnPrimary ==
    Identified /\ branch = "exactDuplicate" /\ resp.success =>
        \E i \in DOMAIN Candidates :
            /\ Candidates[i].email = req.email
            /\ Candidates[i].phoneNumber = req.phoneNumber
            /\ resp.primaryContactId = ChainPrimaryOf(Candidates[i])

SharesAttribute(c, r) ==
    \/ r.email # NULL /\ c.email = r.email
    \/ r.phoneNumber # NULL /\ c.phoneNumber = r.phoneNumber

NewContact == contacts[Len(contacts)]

(* C5: when no active contact shares an attribute with the request,        *)
(* identify inserts one Primary holding the request's pair and answers      *)
(* with it alone.                                                           *)
C5_FreshIdentity ==
    (/\ Identified /\ fail = NoFailure
     /\ ~\E i \in ActiveIds(pre) : SharesAttribute(pre[i], req)) =>
        /\ Created = 1
        /\ Untouched
        /\ NewContact.id = Len(pre) + 1
        /\ NewContact.linkPrecedence = PRIMARY
        /\ NewContact.linkedId = NoId
        /\ NewContact.email = req.email
        /\ NewContact.phoneNumber = req.phoneNumber
        /\ IsActive(NewContact)
        /\ resp.success
        /\ resp.primaryContactId = NewContact.id
        /\ resp.emails = IF req.email # NULL THEN <<req.email>> ELSE <<>>
        /\ resp.phoneNumbers = IF req.phoneNumber # NULL THEN <<req.phoneNumber>> ELSE <<>>
        /\ resp.secondaryContactIds = <<>>

C5_Witness ==
    /\ Identified /\ fail = NoFailure /\ resp.success
    /\ Len(pre) >= 2
    /\ ~\E i \in ActiveIds(pre) : SharesAttribute(pre[i], req)
    /\ Created = 1

Position(s, v) == CHOOSE i \in DOMAIN s : s[i] = v

Before(s, v, w) ==
    /\ v \in Range(s) /\ w \in Range(s)
    /\ Position(s, v) < Position(s, w)

(* The only candidate is one Primary; the request has its value in one     *)
(* field and another, non-null value in the other.                          *)
AddsToSinglePrimary(P) ==
    /\ Identified /\ fail = NoFailure
    /\ {i \in ActiveIds(pre) : SharesAttribute(pre[i], req)} = {P}
    /\ pre[P].linkPrecedence = PRIMARY
    /\ \/ /\ pre[P].email = req.email
          /\ req.phoneNumber # NULL /\ req.phoneNumber # pre[P].phoneNumber
       \/ /\ pre[P].phoneNumber = req.phoneNumber
          /\ req.email # NULL /\ req.email # pre[P].email

(* C6: a request that matches the single candidate Primary on one field    *)
(* and differs on the other inserts one Secondary under it, and the answer  *)
(* lists the Primary's value before the new one.                            *)
C6_NewInfoSecondary ==
    \A P \in DOMAIN pre : AddsToSinglePrimary(P) =>
        /\ Created = 1
        /\ Untouched
        /\ NewContact.linkPrecedence = SECONDARY
        /\ NewContact.linkedId = P
        /\ NewContact.email = req.email
        /\ NewContact.phoneNumber = req.phoneNumber
        /\ resp.success
        /\ resp.primaryContactId = P
        /\ pre[P].email = req.email =>
              /\ req.phoneNumber \in Range(resp.phoneNumbers)
              /\ pre[P].phoneNumber # NULL =>
                    Before(resp.phoneNumbers, pre[P].phoneNumber, req.phoneNumber)
        /\ pre[P].phoneNumber = req.phoneNumber =>
              /\ req.email \in Range(resp.emails)
              /\ pre[P].email # NULL =>
                    Before(resp.emails, pre[P].email, req.email)

C6_Witness ==
    \E P \in DOMAIN pre :
        /\ AddsToSinglePrimary(P)
        /\ Len(pre) >= 2
        /\ pre[P].email = req.email
        /\ pre[P].phoneNumber # NULL
        /\ resp.phoneNumbers = <<pre[P].phoneNumber, req.phoneNumber>>

NoDuplicates(s) == \A i, j \in DOMAIN s : s[i] = s[j] => i = j

(* The active Secondaries linked to the Primary the answer names *)
SecondariesOf(cs, primaryContactId) ==
    {i \in ActiveIds(cs) : /\ cs[i].linkPrecedence = SECONDARY
                           /\ cs[i].linkedId = primaryContactId}

(* Every value after the Primary's own comes from a Secondary, and values  *)
(* follow the creation order of the Secondaries that introduced them.       *)
OrderedByIntroduction(values, own, introducers(_)) ==
    /\ NoDuplicates(values)
    /\ own # NULL => values # <<>> /\ values[1] = own
    /\ \A i \in DOMAIN values : values[i] # own => introducers(values[i]) # {}
    /\ \A i, j \in DOMAIN values :
          i < j /\ values[i] # own /\ values[j] # own =>
              \E x \in introducers(values[i]) : \A y \in introducers(values[j]) :
                  contacts[x].createdAt < contacts[y].createdAt

(* C7: in a successful answer emails and phoneNumbers have no duplicate,   *)
(* the Primary's own values come first and the others follow the creation   *)
(* order of the Secondaries that introduced them.                           *)
C7_OrderingLaw ==
    Identified /\ fail = NoFailure /\ resp.success =>
        LET P == resp.primaryContactId
            S == SecondariesOf(contacts, P)
            emailFrom(v) == {i \in S : contacts[i].email = v}
            phoneFrom(v) == {i \in S : contacts[i].phoneNumber = v}
        IN /\ P \in ActiveIds(contacts)
           /\ OrderedByIntroduction(resp.emails, contacts[P].email, emailFrom)
           /\ OrderedByIntroduction(resp.phoneNumbers, contacts[P].phoneNumber, phoneFrom)

C7_Witness ==
    /\ Identified /\ fail = NoFailure /\ resp.success
    /\ Len(resp.secondaryContactIds) >= 3
    /\ Len(resp.emails) >= 2
    /\ Len(resp.phoneNumbers) >= 2
    /\ \E i, j \in SecondariesOf(contacts, resp.primaryContactId) :
          i # j /\ contacts[i].email = contacts[j].email

(* C8: a successful answer lists exactly the active contacts linked to the *)
(* Primary it names, oldest first, and every value those contacts hold.     *)
C8_CompleteChain ==
    Identified /\ fail = NoFailure /\ resp.success =>
        LET linked == {i \in ActiveIds(contacts) :
                          contacts[i].linkedId = resp.primaryContactId}
            ids == resp.secondaryContactIds
        IN /\ Range(ids) = linked
           /\ \A i, j \in DOMAIN ids :
                 i < j => contacts[ids[i]].createdAt < contacts[ids[j]].createdAt
           /\ {contacts[i].email : i \in linked} \ {NULL} \subseteq Range(resp.emails)
           /\ {contacts[i].phoneNumber : i \in linked} \ {NULL}
                  \subseteq Range(resp.phoneNumbers)

(* C9: once the three repair routines have run, running any of them again  *)
(* right away changes no contact and reports no fix.                        *)
C9_RepairIdempotent ==
    op \in RepairOps /\ prevCall.repairs = RepairOps =>
        contacts = pre /\ fixes = 0

C9_Witness ==
    /\ op = "fixOrphanedSecondaryContacts"
    /\ prevCall.repairs = RepairOps
    /\ prevCall.fixed > 0

(* C10: when the candidate query fails, identify answers with a failure    *)
(* that carries the store's message and writes nothing.                     *)
C10_FetchFailure ==
    Identified /\ fail.find # NULL =>
        /\ ~resp.success
        /\ resp.error = fail.find
        /\ contacts = pre

C10_Witness ==
    /\ Identified /\ fail.find # NULL
    /\ ~resp.success
    /\ \E i \in ActiveIds(pre) : SharesAttribute(pre[i], req)
    /\ ~HasExactPair(pre, req)

(* The contacts consolidate(id) works on: the active contact with that id, *)
(* its Primary one hop away, and the active contacts linked to that Primary *)
FetchedFor(cs, id) ==
    IF id \notin ActiveIds(cs) THEN {}
    ELSE LET P == ChainPrimaryOf(cs[id])
         IN IF P = NoId THEN {id}
            ELSE {i \in ActiveIds(cs) : i = P \/ cs[i].linkedId = P}

(* C11: consolidate(id) fails, and leaves the store as it is, whenever the *)
(* contacts fetched for id hold no Primary, also when no active contact has *)
(* that id.                                                                 *)
C11_ConsolidateWithoutPrimaryFails ==
    (/\ op = "consolidateContactInfo"
     /\ \A i \in FetchedFor(pre, arg.primaryContactId) :
            pre[i].linkPrecedence # PRIMARY) =>
        /\ ~resp.success
        /\ contacts = pre

C11_Witness ==
    /\ op = "consolidateContactInfo"
    /\ ~resp.success
    /\ Cardinality(FetchedFor(pre, arg.primaryContactId)) >= 2
    /\ \A i \in FetchedFor(pre, arg.primaryContactId) : pre[i].linkPrecedence # PRIMARY

(* Two calls that carried the same request, both found no candidate, both  *)
(* took the no-match branch and both have their response.                   *)
RacedOnNewIdentity(p, q) ==
    /\ p # q
    /\ calls[p].pc = "done" /\ calls[q].pc = "done"
    /\ calls[p].req = calls[q].req
    /\ calls[p].found.contacts = <<>> /\ calls[q].found.contacts = <<>>
    /\ calls[p].branch = "noMatch" /\ calls[q].branch = "noMatch"

(* C12: when two calls with the same request run at once and both see no   *)
(* candidate, each inserts its own Primary: the store then holds two active *)
(* Primaries with the request's email and phoneNumber.                      *)
C12_RaceCreatesTwoPrimaries ==
    \A p, q \in Callers : RacedOnNewIdentity(p, q) =>
        \E i, j \in ActiveIds(contacts) :
            /\ i # j
            /\ i = calls[p].resp.primaryContactId
            /\ j = calls[q].resp.primaryContactId
            /\ contacts[i].linkPrecedence = PRIMARY
            /\ contacts[j].linkPrecedence = PRIMARY
            /\ contacts[i].email = calls[p].req.email
            /\ contacts[j].email = calls[p].req.email
            /\ contacts[i].phoneNumber = calls[p].req.phoneNumber
            /\ contacts[j].phoneNumber = calls[p].req.phoneNumber

C12_Witness ==
    /\ RacedOnNewIdentity(1, 2)
    /\ calls[1].resp.success /\ calls[2].resp.success
    /\ calls[1].req.email # NULL /\ calls[1].req.phoneNumber # NULL
    /\ calls[1].resp.primaryContactId > calls[2].resp.primaryContactId

(* Every active Primary has no link and every active Secondary is linked   *)
(* to an active Primary.                                                    *)
Healthy(cs) ==
    \A i \in ActiveIds(cs) :
        /\ cs[i].linkPrecedence = PRIMARY => cs[i].linkedId = NoId
        /\ cs[i].linkPrecedence = SECONDARY =>
              /\ cs[i].linkedId \in ActiveIds(cs)
              /\ cs[cs[i].linkedId].linkPrecedence = PRIMARY

(* C13: on a healthy store no identify call turns a Secondary into a       *)
(* Primary.                                                                 *)
C13_NoPromotionByIdentify ==
    Identified /\ fail = NoFailure /\ Healthy(pre) =>
        \A i \in DOMAIN pre :
            pre[i].linkPrecedence = SECONDARY => contacts[i].linkPrecedence # PRIMARY

(* C14: an identify call leaves every existing contact in place with its   *)
(* id, email, phoneNumber, createdAt and deletedAt; only linkPrecedence and *)
(* linkedId can differ.                                                     *)
C14_OnlyLinkageChanges ==
    Identified =>
        /\ Len(contacts) >= Len(pre)
        /\ \A i \in DOMAIN pre :
              /\ contacts[i].id = pre[i].id
              /\ contacts[i].email = pre[i].email
              /\ contacts[i].phoneNumber = pre[i].phoneNumber
              /\ contacts[i].createdAt = pre[i].createdAt
              /\ contacts[i].deletedAt = pre[i].deletedAt
              /\ IsActive(contacts[i])

C14_Witness ==
    /\ Identified
    /\ \E i \in DOMAIN pre : /\ pre[i].linkPrecedence = PRIMARY
                              /\ contacts[i].linkPrecedence = SECONDARY
                              /\ pre[i].email # NULL
    /\ \E i \in DOMAIN pre : /\ pre[i].linkPrecedence = SECONDARY
                              /\ contacts[i].linkedId # pre[i].linkedId
                              /\ pre[i].phoneNumber # NULL

(* Neither field of the posted body carries a value: each is absent, null  *)
(* or a string that the rewriting steps leave empty.                        *)
HasNeitherField(b) ==
    /\ b.json
    /\ b.email \in {Absent, NULL, "", " "}
    /\ b.phoneNumber \in {Absent, NULL, "", " ", "-"}

Posted == op \in {"identify", "rejected"}

(* identifyContact runs only with at least one field of its request given *)
ReachedWithAField ==
    op = "identify" => req.email \notin {NULL, ""} \/ req.phoneNumber \notin {NULL, ""}

(* C15, as claimed: a POST whose body has neither field is answered with   *)
(* 400 without a call of identifyContact and the store is unchanged;        *)
(* identifyContact is reached only with a field present.                    *)
C15_EmptyBodyAnswered400 ==
    /\ Posted /\ HasNeitherField(body) =>
          status = 400 /\ op = "rejected" /\ contacts = pre
    /\ ReachedWithAField

(* C15, amended: the answer is 400, or 429 when the rate limiter has        *)
(* already counted MAX_REQUESTS requests of the client in the window; in    *)
(* both cases identifyContact is not called and the store is unchanged.     *)
C15_EmptyBodyRejected ==
    /\ Posted /\ HasNeitherField(body) =>
          /\ status \in {400, 429}
          /\ status = 429 => requests = MAX_REQUESTS
          /\ op = "rejected"
          /\ contacts = pre
    /\ ReachedWithAField

C15_Witness ==
    /\ Posted /\ HasNeitherField(body)
    /\ body.email = " " /\ body.phoneNumber = "-"
    /\ status = 400
    /\ contacts # <<>>

(* The ids of the Primaries among the candidates of the call just taken *)
CandidatePrimaries ==
    {Candidates[k].id : k \in {j \in DOMAIN Candidates :
                                  Candidates[j].linkPrecedence = PRIMARY}}

(* The candidate Primaries than which no candidate Primary was created     *)
(* earlier                                                                  *)
OldestCandidatePrimaries ==
    {o \in CandidatePrimaries :
        \A n \in CandidatePrimaries : pre[o].createdAt <= pre[n].createdAt}

(* C16: after the merges of a call whose updates all succeed, each younger *)
(* candidate Primary and every contact that was linked to it are            *)
(* Secondaries linked to the oldest candidate Primary.                      *)
C16_MergeRepointsChain ==
    Identified /\ fail = NoFailure /\ branch = "multiplePrimaries" =>
        \A older \in OldestCandidatePrimaries :
            \A newer \in CandidatePrimaries \ {older} :
                /\ contacts[newer].linkedId = older
                /\ contacts[newer].linkPrecedence = SECONDARY
                /\ \A i \in ActiveIds(pre) :
                      pre[i].linkedId = newer =>
                          /\ contacts[i].linkedId = older
                          /\ contacts[i].linkPrecedence = SECONDARY

(* C17: a contact that an identify call turns from Primary into Secondary  *)
(* is linked to the oldest Primary among the call's candidates, which stays *)
(* Primary and is not younger than the demoted contact.                     *)
C17_DemotedUnderOldest ==
    Identified =>
        \A i \in DOMAIN pre :
            pre[i].linkPrecedence = PRIMARY /\ contacts[i].linkPrecedence = SECONDARY =>
                LET survivor == contacts[i].linkedId
                IN /\ survivor \in OldestCandidatePrimaries
                   /\ survivor # i
                   /\ contacts[survivor].linkPrecedence = PRIMARY
                   /\ pre[survivor].createdAt <= pre[i].createdAt

C17_Witness ==
    /\ Identified
    /\ Cardinality(CandidatePrimaries) >= 3
    /\ \E i, j \in DOMAIN pre :
          /\ i # j
          /\ pre[i].linkPrecedence = PRIMARY /\ contacts[i].linkPrecedence = SECONDARY
          /\ pre[j].linkPrecedence = PRIMARY /\ contacts[j].linkPrecedence = SECONDARY

(* The contacts of the chain of P as the merges have left it, without the  *)
(* contact the call may have added                                          *)
MergedChain(P) ==
    {i \in ActiveIds(pre) : i = P \/ contacts[i].linkedId = P}

(* C18: in the multiple-primaries branch one Secondary with the request's  *)
(* pair is added under the surviving Primary exactly when no contact of the *)
(* merged chain holds that pair.                                            *)
C18_SecondaryAfterMerge ==
    Identified /\ fail = NoFailure /\ branch = "multiplePrimaries" /\ resp.success =>
        LET P == resp.primaryContactId
            held == \E i \in MergedChain(P) :
                        /\ contacts[i].email = req.email
                        /\ contacts[i].phoneNumber = req.phoneNumber
        IN /\ held => Created = 0
           /\ ~held => /\ Created = 1
                       /\ NewContact.linkPrecedence = SECONDARY
                       /\ NewContact.linkedId = P
                       /\ NewContact.email = req.email
                       /\ NewContact.phoneNumber = req.phoneNumber

(* C19: the single-primary rule is applied only to a candidate set of one  *)
(* contact, a Primary; two or more candidate Primaries without an exact     *)
(* duplicate are merged.                                                    *)
C19_BranchSelection ==
    Identified /\ fail = NoFailure =>
        /\ branch = "singlePrimary" =>
              Len(Candidates) = 1 /\ Candidates[1].linkPrecedence = PRIMARY
        /\ Cardinality(CandidatePrimaries) >= 2 /\ ~HasExactPair(pre, req) =>
              branch = "multiplePrimaries"

(* One field of the request r equals that of the contact c and the other   *)
(* field of r is given and differs from that of c                           *)
MatchesOneAddsOther(c, r) ==
    \/ /\ r.email = c.email
       /\ r.phoneNumber # NULL /\ r.phoneNumber # c.phoneNumber
    \/ /\ r.phoneNumber = c.phoneNumber
       /\ r.email # NULL /\ r.email # c.email

(* C20: needsSecondaryContact(P, request) is true exactly when the request *)
(* is not P's own pair, equals P on one field and brings a non-null,        *)
(* different value in the other; a request of one field equal to P's own    *)
(* needs no Secondary.                                                      *)
C20_NeedsSecondaryLaw ==
    op = "needsSecondaryContact" =>
        LET P == arg.primaryContact
        IN /\ returned <=>
                 /\ ~(req.email = P.email /\ req.phoneNumber = P.phoneNumber)
                 /\ MatchesOneAddsOther(P, req)
           /\ req.phoneNumber = NULL /\ req.email = P.email => ~returned
           /\ req.email = NULL /\ req.phoneNumber = P.phoneNumber => ~returned

C20_Witness ==
    /\ op = "needsSecondaryContact"
    /\ returned
    /\ arg.primaryContact.phoneNumber = NULL
    /\ arg.primaryContact.email = req.email
    /\ req.phoneNumber # NULL
    /\ contacts # <<>>

(* The chain of the Primary P as getAllLinkedContacts fetches it: the     *)
(* active contacts with id P or linkedId P                                  *)
ChainOf(cs, P) == {i \in ActiveIds(cs) : i = P \/ cs[i].linkedId = P}

(* The request has a non-null value that no contact of the chain has *)
BringsNewValue(cs, chain, r) ==
    \/ r.email # NULL /\ \A i \in chain : cs[i].email # r.email
    \/ r.phoneNumber # NULL /\ \A i \in chain : cs[i].phoneNumber # r.phoneNumber

(* The request has a non-null value that some contact of the chain has *)
MatchesChain(cs, chain, r) ==
    \/ r.email # NULL /\ \E i \in chain : cs[i].email = r.email
    \/ r.phoneNumber # NULL /\ \E i \in chain : cs[i].phoneNumber = r.phoneNumber

NoPrimaryAmongCandidates ==
    /\ Identified /\ fail = NoFailure
    /\ Len(Candidates) > 0
    /\ CandidatePrimaries = {}
    /\ ~isExactDuplicate(Candidates, req.email, req.phoneNumber)

(* The candidates than which no candidate was created earlier *)
EarliestCandidates ==
    {Candidates[k].id : k \in {j \in DOMAIN Candidates :
        \A n \in DOMAIN Candidates : Candidates[j].createdAt <= Candidates[n].createdAt}}

(* C22: when the candidates hold no Primary, the earliest-created candidate *)
(* is made a Primary without link, and a request value that its chain does  *)
(* not have is stored in a new Secondary under it.                           *)
C22_PromoteThenNewInfo ==
    NoPrimaryAmongCandidates =>
        \E o \in EarliestCandidates :
            /\ contacts[o].linkPrecedence = PRIMARY
            /\ contacts[o].linkedId = NoId
            /\ BringsNewValue(contacts, ChainOf(contacts, o) \cap DOMAIN pre, req) =>
                  /\ Created = 1
                  /\ NewContact.linkPrecedence = SECONDARY
                  /\ NewContact.linkedId = o
                  /\ NewContact.email = req.email
                  /\ NewContact.phoneNumber = req.phoneNumber

(* The id that getAllLinkedContacts(id) resolves an active contact to: its *)
(* own if it is a Primary, else its linkedId                                *)
ResolvedPrimaryId(cs, id) ==
    IF cs[id].linkPrecedence = PRIMARY THEN id ELSE cs[id].linkedId

FetchedIds == {fetched[k].id : k \in DOMAIN fetched}

(* getAllLinkedContacts was called with the id of an active contact that   *)
(* is a Primary or has a linkedId                                           *)
FetchedChainOf(id) ==
    /\ op = "getAllLinkedContacts"
    /\ arg.primaryContactId = id
    /\ id \in ActiveIds(contacts)
    /\ ResolvedPrimaryId(contacts, id) # NoId

MergeFailsAt(newer, i) ==
    /\ Identified /\ branch = "multiplePrimaries"
    /\ newer \in CandidatePrimaries \ OldestCandidatePrimaries
    /\ fail.find = NULL
    /\ fail.update = {i}
    /\ i \in ActiveIds(pre)
    /\ pre[i].linkPrecedence = SECONDARY
    /\ pre[i].linkedId = newer

(* C24: when the re-pointing of a Secondary fails after its Primary has    *)
(* been demoted, the call leaves the demotion in place and the Secondary    *)
(* linked to the demoted contact: a Secondary linked to a Secondary.        *)
C24_MergeNotAtomic ==
    Identified /\ branch = "multiplePrimaries" /\ fail.update # {} =>
        \A newer, i \in DOMAIN pre : MergeFailsAt(newer, i) =>
            /\ contacts[newer].linkPrecedence = SECONDARY
            /\ contacts[newer].linkedId \in OldestCandidatePrimaries
            /\ contacts[i] = pre[i]
            /\ contacts[i].linkedId = newer
            /\ IsActive(contacts[i]) /\ IsActive(contacts[newer])

C24_Witness ==
    \E newer, i \in DOMAIN pre :
        /\ MergeFailsAt(newer, i)
        /\ contacts[i].linkPrecedence = SECONDARY
        /\ contacts[contacts[i].linkedId].linkPrecedence = SECONDARY
        /\ pre[newer].linkPrecedence = PRIMARY

(* A call of the merge branch in which the merge of a younger Primary, or  *)
(* one update, fails                                                        *)
FailsInMerge ==
    /\ Identified /\ branch = "multiplePrimaries"
    /\ fail.update # {} \/ fail.merge # {}

(* C25: a call of the merge branch in which one merge or one update fails  *)
(* still demotes every other younger candidate Primary, re-points every     *)
(* other Secondary of the chains it could read, and answers with success    *)
(* and the view of the oldest candidate Primary.                            *)
C25_MergeKeepsGoing ==
    FailsInMerge =>
        \A older \in OldestCandidatePrimaries :
            /\ resp.success
            /\ resp.primaryContactId = older
            /\ Range(resp.secondaryContactIds)
                  = {i \in ActiveIds(contacts) :
                        /\ contacts[i].linkPrecedence = SECONDARY
                        /\ contacts[i].linkedId = older}
            /\ \A newer \in (CandidatePrimaries \ {older}) \ fail.merge :
                  /\ newer \notin fail.update =>
                        /\ contacts[newer].linkPrecedence = SECONDARY
                        /\ contacts[newer].linkedId = older
                  /\ \A j \in ActiveIds(pre) \ fail.update :
                        pre[j].linkPrecedence = SECONDARY /\ pre[j].linkedId = newer =>
                            contacts[j].linkedId = older

C25_Witness ==
    /\ FailsInMerge
    /\ resp.success
    /\ Cardinality(CandidatePrimaries) >= 3
    /\ \E x, y \in CandidatePrimaries :
          /\ x < y
          /\ x \in fail.merge \cup fail.update
          /\ contacts[x].linkPrecedence = PRIMARY
          /\ contacts[y].linkPrecedence = SECONDARY
          /\ contacts[y].linkedId \in OldestCandidatePrimaries

(* The call just taken inserts a contact when no store call fails *)
DecidesToCreate ==
    Len(identifyContact(pre, now, req.email, req.phoneNumber, NoFailure).cs) > Len(pre)

(* C26: a call whose insert fails answers with a failure, in every branch: *)
(* no success is returned for a request whose new contact was not stored.   *)
C26_CreateFailureReported ==
    Identified /\ fail.create /\ DecidesToCreate =>
        /\ Created = 0
        /\ ~resp.success

(* The three repair routines have run back to back, the last one just now *)
RepairPassDone == op \in RepairOps /\ prevCall.repairs \cup {op} = RepairOps

(* An active Secondary whose linkedId is null, names no active contact or  *)
(* names a contact that is not a Primary                                    *)
IsOrphanedSecondary(cs, i) ==
    /\ i \in ActiveIds(cs)
    /\ cs[i].linkPrecedence = SECONDARY
    /\ \/ cs[i].linkedId = NoId
       \/ cs[i].linkedId \notin ActiveIds(cs)
       \/ cs[cs[i].linkedId].linkPrecedence # PRIMARY

(* C27: after a repair pass no orphaned Secondary remains in the store.    *)
C27_NoOrphanAfterRepair ==
    RepairPassDone => \A i \in DOMAIN contacts : ~IsOrphanedSecondary(contacts, i)

(* An active Secondary whose linkedId names a contact that is a Secondary *)
LinksToSecondary(cs, i) ==
    /\ i \in ActiveIds(cs)
    /\ cs[i].linkPrecedence = SECONDARY
    /\ cs[i].linkedId \in DOMAIN cs
    /\ cs[cs[i].linkedId].linkPrecedence = SECONDARY

(* C28: after handleDatabaseInconsistencies no active Secondary is linked  *)
(* to a Secondary, and every contact the routine has changed is a Primary   *)
(* without link: no linkedId is re-pointed to another contact.              *)
C28_NoSecondaryToSecondary ==
    op = "handleDatabaseInconsistencies" =>
        /\ \A i \in DOMAIN contacts : ~LinksToSecondary(contacts, i)
        /\ \A i \in DOMAIN contacts :
              contacts[i] # pre[i] =>
                  /\ contacts[i].linkPrecedence = PRIMARY
                  /\ contacts[i].linkedId = NoId

(* Following linkedId from the contact `current` arrives at `target`       *)
(* within `steps` further links                                             *)
RECURSIVE LeadsTo(_, _, _, _)
LeadsTo(cs, current, target, steps) ==
    /\ current \in DOMAIN cs
    /\ \/ current = target
       \/ steps > 0 /\ LeadsTo(cs, cs[current].linkedId, target, steps - 1)

(* The links of contact i lead back to i *)
ReachesItself(cs, i) == LeadsTo(cs, cs[i].linkedId, i, Len(cs))

(* C29: after handleCircularReferences no active Secondary reaches itself  *)
(* along linkedId, every contact the routine has changed is a Primary       *)
(* without link, and the count it reports is the number of those contacts.  *)
C29_NoCycleAfterRepair ==
    op = "handleCircularReferences" =>
        /\ \A i \in ActiveIds(contacts) :
              contacts[i].linkPrecedence = SECONDARY => ~ReachesItself(contacts, i)
        /\ \A i \in DOMAIN contacts :
              contacts[i] # pre[i] =>
                  /\ contacts[i].linkPrecedence = PRIMARY
                  /\ contacts[i].linkedId = NoId
        /\ fixes = Cardinality({i \in DOMAIN contacts : contacts[i] # pre[i]})

(* In the list `all`, following linkedId from the contact with id          *)
(* `currentId` arrives at the contact with id `target` within `steps`       *)
(* further links                                                            *)
RECURSIVE LeadsToIn(_, _, _, _)
LeadsToIn(all, currentId, target, steps) ==
    \E k \in DOMAIN all :
        /\ all[k].id = currentId
        /\ \/ currentId = target
           \/ steps > 0 /\ LeadsToIn(all, all[k].linkedId, target, steps - 1)

(* C30: hasCircularReference(contact, allContacts) returns a value for     *)
(* every contact and every list, and the value is true exactly when the     *)
(* links that start at the contact's linkedId lead back to the contact.     *)
C30_CircularReferenceLaw ==
    op = "hasCircularReference" =>
        /\ returned \in BOOLEAN
        /\ returned <=> LeadsToIn(fetched, arg.primaryContact.linkedId,
                                  arg.primaryContact.id, Len(fetched))

C30_Witness ==
    /\ op = "hasCircularReference"
    /\ ~returned
    /\ \E k \in DOMAIN fetched :
          /\ fetched[k].id = arg.primaryContact.linkedId
          /\ fetched[k].id # arg.primaryContact.id
          /\ fetched[k].linkedId = fetched[k].id

(* C31: shouldLink(a, b) is true exactly when a and b have the same        *)
(* non-null email or the same non-null phoneNumber; it gives the same       *)
(* answer for (b, a), and a contact without email and phoneNumber links to  *)
(* no contact.                                                              *)
C31_ShouldLinkLaw ==
    op = "shouldLink" =>
        LET a == fetched[1]
            b == fetched[2]
        IN /\ returned <=>
                 \/ a.email # NULL /\ b.email # NULL /\ a.email = b.email
                 \/ /\ a.phoneNumber # NULL /\ b.phoneNumber # NULL
                    /\ a.phoneNumber = b.phoneNumber
           /\ returned = shouldLink(b, a)
           /\ a.email = NULL /\ a.phoneNumber = NULL => ~returned
           /\ b.email = NULL /\ b.phoneNumber = NULL => ~returned

C31_Witness ==
    /\ op = "shouldLink"
    /\ returned
    /\ fetched[1].email = NULL /\ fetched[2].email = NULL
    /\ fetched[1].phoneNumber = fetched[2].phoneNumber

(* The ids a group holds, and the groups as sets of ids *)
IdsOf(group) == {c.id : c \in Range(group)}

GroupsAsIds(groups) == {IdsOf(g) : g \in Range(groups)}

(* The ids of list that a path of shouldLink pairs joins to one of S *)
RECURSIVE JoinedTo(_, _)
JoinedTo(list, S) ==
    LET T == S \cup {list[k].id : k \in
                 {k \in DOMAIN list :
                     \E j \in DOMAIN list : list[j].id \in S /\ shouldLink(list[j], list[k])}}
    IN IF T = S THEN S ELSE JoinedTo(list, T)

(* The rearrangements of a list *)
Rearrangements(list) ==
    {[k \in DOMAIN list |-> list[f[k]]] :
        f \in {g \in [DOMAIN list -> DOMAIN list] :
                  \A i, j \in DOMAIN list : g[i] = g[j] => i = j}}

SameGroupIffJoined ==
    \A i, j \in DOMAIN fetched :
        i # j =>
            ((\E G \in GroupsAsIds(outcome.linkableGroups) : {i, j} \subseteq G)
                <=> j \in JoinedTo(fetched, {i}))

SameGroupsForEveryOrder ==
    \A list \in Rearrangements(fetched) :
        GroupsAsIds(groupLinkableContacts(list)) = GroupsAsIds(outcome.linkableGroups)

(* C32, as stated: the groups partition the list into the connected        *)
(* components of the shared-attribute graph, every contact of the list is   *)
(* in exactly one group, and every order of the list gives the same groups. *)
C32_EveryContactInOneGroup ==
    op = "analyzeContactLinkage" =>
        /\ \A i \in DOMAIN fetched :
               Cardinality({g \in DOMAIN outcome.linkableGroups :
                               i \in IdsOf(outcome.linkableGroups[g])}) = 1
        /\ SameGroupIffJoined
        /\ SameGroupsForEveryOrder

(* C32, amended: a contact that links with another contact of the list is  *)
(* in exactly one group, a contact that links with none is in no group and  *)
(* is reported as isolated; two contacts share a group exactly when a path  *)
(* of shouldLink pairs joins them, and every order gives the same groups.   *)
C32_GroupsAreLinkedComponents ==
    op = "analyzeContactLinkage" =>
        /\ \A i \in DOMAIN fetched :
               LET holding == {g \in DOMAIN outcome.linkableGroups :
                                  i \in IdsOf(outcome.linkableGroups[g])}
                   linked == \E j \in DOMAIN fetched :
                                 j # i /\ shouldLink(fetched[i], fetched[j])
               IN /\ linked => Cardinality(holding) = 1
                  /\ ~linked => holding = {} /\ i \in IdsOf(outcome.isolatedContacts)
                  /\ linked => i \notin IdsOf(outcome.isolatedContacts)
        /\ \A g \in DOMAIN outcome.linkableGroups :
               Len(outcome.linkableGroups[g]) = Cardinality(IdsOf(outcome.linkableGroups[g]))
        /\ SameGroupIffJoined
        /\ SameGroupsForEveryOrder

(* A chain of three: the first and the last contact are joined only through *)
(* the second, which comes last in the list; a fourth case, an isolated one *)
C32_Witness ==
    /\ op = "analyzeContactLinkage"
    /\ Len(fetched) = 3
    /\ ~shouldLink(fetched[1], fetched[2])
    /\ shouldLink(fetched[1], fetched[3]) /\ shouldLink(fetched[3], fetched[2])
    /\ GroupsAsIds(outcome.linkableGroups) = {{1, 2, 3}}

(* The contacts of the list handed to the method, by precedence *)
ListedPrimaries == {k \in DOMAIN fetched : fetched[k].linkPrecedence = PRIMARY}

ListedSecondaries == {k \in DOMAIN fetched : fetched[k].linkPrecedence = SECONDARY}

(* The contact of the list that the link of the k-th contact names, if any *)
LinkTargets(k) == {j \in DOMAIN fetched : fetched[j].id = fetched[k].linkedId}

Reported(message) == \E n \in DOMAIN outcome.issues : outcome.issues[n].message = message

(* C33: validateContactChain answers isValid exactly when the list holds at *)
(* most one Primary and every Secondary's linkedId is the id of a Primary   *)
(* of the list; more than one Primary, a Secondary whose link is null or    *)
(* names no contact of the list, and a Secondary linked to a Secondary each *)
(* come with their issue.                                                   *)
C33_ValidateChainLaw ==
    op = "validateContactChain" =>
        /\ outcome.isValid <=>
              /\ Cardinality(ListedPrimaries) <= 1
              /\ \A k \in ListedSecondaries :
                     \E j \in LinkTargets(k) : j \in ListedPrimaries
        /\ outcome.primaryCount = Cardinality(ListedPrimaries)
        /\ Cardinality(ListedPrimaries) > 1 =>
              ~outcome.isValid /\ Reported("Multiple primary contacts found")
        /\ (\E k \in ListedSecondaries : LinkTargets(k) = {}) =>
              ~outcome.isValid /\ Reported("Orphaned secondary contacts")
        /\ (\E k \in ListedSecondaries : \E j \in LinkTargets(k) : j \in ListedSecondaries) =>
              /\ ~outcome.isValid
              /\ Reported("Secondary contacts linked to other secondaries")
        /\ outcome.isValid <=> outcome.issues = <<>>

(* One Primary and a Secondary whose link names a contact the list lacks *)
C33_Witness ==
    /\ op = "validateContactChain"
    /\ Cardinality(ListedPrimaries) = 1
    /\ \E k \in ListedSecondaries : fetched[k].linkedId # NoId /\ LinkTargets(k) = {}
    /\ ~outcome.isValid
    /\ Len(outcome.issues) = 1

(* A request field that carries a value *)
Given(v) == v \notin {NULL, Absent}

(* What the scoring rule gives contact c for the request r, short of an *)
(* exact match                                                          *)
PartialScore(c, r) ==
    50 * Cardinality({f \in {"email", "phoneNumber"} : Given(r[f]) /\ c[f] = r[f]})
    + 30 * Cardinality({f \in {"email", "phoneNumber"} :
                           LET g == IF f = "email" THEN "phoneNumber" ELSE "email"
                           IN Given(r[f]) /\ c[f] = NULL /\ c[g] = r[g]})

ExactFor(c, r) == c.email = r.email /\ c.phoneNumber = r.phoneNumber

ScoreFor(c, r) == IF ExactFor(c, r) THEN 100 ELSE PartialScore(c, r)

(* C40: scoreContactMatch answers 100 and isExactMatch exactly when both   *)
(* fields of the contact equal the request's; otherwise 50 for each request *)
(* field with a value that equals the contact's plus 30 when the contact    *)
(* lacks a field the request has and the other field is equal, which stays  *)
(* below 100. findBestMatch returns the first contact with the highest      *)
(* score and no contact when every score is 0.                              *)
C40_ScoreLaw ==
    /\ op = "scoreContactMatch" =>
          /\ outcome.isExactMatch <=> ExactFor(fetched[1], req)
          /\ outcome.isExactMatch <=> outcome.score = 100
          /\ ~outcome.isExactMatch =>
                outcome.score = PartialScore(fetched[1], req) /\ outcome.score < 100
    /\ op = "findBestMatch" =>
          LET highest == {k \in DOMAIN fetched :
                            \A j \in DOMAIN fetched :
                                ScoreFor(fetched[j], req) <= ScoreFor(fetched[k], req)}
          IN IF \A k \in DOMAIN fetched : ScoreFor(fetched[k], req) = 0
             THEN outcome.bestMatch = NoContact /\ outcome.score = 0
             ELSE \E k \in highest :
                     /\ \A j \in highest : k <= j
                     /\ outcome.bestMatch = fetched[k]
                     /\ outcome.score = ScoreFor(fetched[k], req)

(* Two contacts share the highest score, 80, behind a contact that scores *)
(* less, and the earlier of the two is returned                           *)
C40_Witness ==
    /\ op = "findBestMatch"
    /\ Len(fetched) = 3
    /\ ScoreFor(fetched[1], req) = 50
    /\ ScoreFor(fetched[2], req) = 80
    /\ ScoreFor(fetched[3], req) = 80
    /\ outcome.bestMatch = fetched[2]
    /\ outcome.score = 80

(* The active contacts that hold the email or the phoneNumber of the request *)
SharingWithRequest ==
    {i \in ActiveIds(contacts) :
        \/ req.email # NULL /\ contacts[i].email = req.email
        \/ req.phoneNumber # NULL /\ contacts[i].phoneNumber = req.phoneNumber}

(* C34: after a successful identify every active contact that holds the   *)
(* request's email or phoneNumber is the returned primary or is linked to  *)
(* it.                                                                     *)
C34_SharersInOneChain ==
    Identified /\ resp.success =>
        \A i \in SharingWithRequest :
            \/ contacts[i].id = resp.primaryContactId
            \/ contacts[i].linkedId = resp.primaryContactId

(* C35: a successful response holds the request's own email and phoneNumber *)
C35_ResponseHoldsRequest ==
    Identified /\ resp.success =>
        /\ req.email # NULL => req.email \in Range(resp.emails)
        /\ req.phoneNumber # NULL => req.phoneNumber \in Range(resp.phoneNumbers)

(* C36: an identify call inserts at most one contact, whatever branch it *)
(* takes and whichever store operation fails on the way.                 *)
C36_AtMostOneInsert ==
    Identified =>
        /\ Created \in {0, 1}
        /\ \A i \in DOMAIN pre : contacts[i].id = pre[i].id

(* The merge of a newer Primary failed, it is still a Primary, and the *)
(* call went on to insert its one Secondary                             *)
C36_Witness ==
    /\ Identified
    /\ branch = "multiplePrimaries"
    /\ \E x \in CandidatePrimaries \cap fail.merge :
          contacts[x].linkPrecedence = PRIMARY
    /\ Created = 1
    /\ NewContact.linkPrecedence = SECONDARY

(* C37: when identify(r) has succeeded, the same request sent again at once *)
(* creates no contact, changes no contact and gets the same response.       *)
C37_RepeatChangesNothing ==
    /\ Identified
    /\ prevCall.op = "identify" /\ prevCall.req = req
    /\ prevCall.resp.success
    => /\ contacts = pre
       /\ resp = prevCall.resp

(* C38: a health check creates, updates and deletes no contact *)
C38_HealthChecksReadOnly ==
    op \in HealthOps => contacts = pre

(* C39: for each client the limiter passes at most MAX_REQUESTS requests in *)
(* a window. A client without a window, or whose window ended before now,   *)
(* gets a window with count 1 that ends WINDOW_SIZE after now and passes;   *)
(* within a window a request passes and is counted while the count is below *)
(* MAX_REQUESTS and is otherwise answered 429, not passed and not counted;  *)
(* the entries of the other clients stay as they are.                       *)
C39_WindowLaw ==
    [][op' = "rateLimiter" =>
        LET ip == arg'.clientIP
            entry == requests[ip]
            after == requests'[ip]
        IN /\ \A other \in ClientIPs \ {ip} : requests'[other] = requests[other]
           /\ after.count \in 1..MAX_REQUESTS
           /\ IF entry.count = NoEntry \/ now' > entry.resetTime
              THEN /\ after = [count |-> 1, resetTime |-> now' + 60000]
                   /\ returned' /\ status' # 429
              ELSE IF entry.count >= 100
              THEN after = entry /\ ~returned' /\ status' = 429
              ELSE /\ after = [count |-> entry.count + 1, resetTime |-> entry.resetTime]
                   /\ returned' /\ status' # 429]_vars

(* The hundredth request of a window has passed; a request arriving exactly *)
(* at resetTime is refused while the other client is in its own window      *)
C39_Witness ==
    /\ op = "rateLimiter"
    /\ status = 429
    /\ requests[arg.clientIP].count = MAX_REQUESTS
    /\ now = requests[arg.clientIP].resetTime
    /\ \E other \in ClientIPs \ {arg.clientIP} :
          requests[other].count \in 1..(MAX_REQUESTS - 1)

====
